---------------------------- MODULE Spec2Model ----------------------------
(***************************************************************************)
(* PySPL: a pipe-separated query is parsed into a command list and the     *)
(* commands are run in order over an in-memory list of records.            *)
(*                                                                         *)
(* Text is handled character by character, as the Python code does:        *)
(* a text is a sequence of one-character strings (Chars turns a TLA+       *)
(* string into one, ToStr turns it back).                                  *)
(***************************************************************************)
EXTENDS Integers, Sequences, FiniteSets, TLC

VARIABLES
    data,       \* SPL.data: the engine's dataset, a sequence of records
    pc,         \* "idle" | "run" | "done" | "raised": position inside SPL.search
    query,      \* the query string given to SPL.search
    form,       \* the structure the query text was written from
    commands,   \* parser.parse(): the command list of the running query
    ci,         \* index of the next command of the for loop in SPL.search
    result,     \* the local `result` of SPL.search
    src,        \* src[i]: index in data of the record object result[i] is (0: a new object)
    aliased,    \* TRUE when `result` is the list object self.data itself
    call,       \* the last direct call of a function of parser.py or utils.py
    ret         \* whether that call has returned, and its value

vars == <<data, pc, query, form, commands, ci, result, src, aliased, call, ret>>

-----------------------------------------------------------------------------
(* Bounds of the model *)

MaxRecs == 2        \* longest dataset given to the constructor
MaxResults == 2     \* longest list of subsearch results given to format_subsearch_results

-----------------------------------------------------------------------------
(* Python str operations on character sequences *)

Chars(s) == [i \in 1..Len(s) |-> SubSeq(s, i, i)]

RECURSIVE ToStr(_)
ToStr(cs) == IF cs = <<>> THEN "" ELSE Head(cs) \o ToStr(Tail(cs))

SetMin(S) == CHOOSE i \in S : \A j \in S : i <= j

Whitespace == {" ", "\t"}
Digits == {"0", "1", "2", "3", "4", "5", "6", "7", "8", "9"}
LowerCase == <<"a","b","c","d","e","f","g","h","i","j","k","l","m",
               "n","o","p","q","r","s","t","u","v","w","x","y","z">>
UpperCase == <<"A","B","C","D","E","F","G","H","I","J","K","L","M",
               "N","O","P","Q","R","S","T","U","V","W","X","Y","Z">>
Range(f) == {f[i] : i \in DOMAIN f}
\* the characters the regular expression class \w matches
WordChars == Range(LowerCase) \cup Range(UpperCase) \cup Digits \cup {"_"}

\* printable ASCII in code-point order, from the space (32) on; the grave
\* accent (96) cannot be written in a TLA+ string and no text here holds it
Ascii == Chars(" !\"#$%&'()*+,-./0123456789:;<=>?@ABCDEFGHIJKLMNOPQRSTUVWXYZ[\\]^_")
         \o <<"grave">> \o Chars("abcdefghijklmnopqrstuvwxyz{|}~")
ord(c) == IF c = "\t" THEN 9 ELSE 31 + (CHOOSE i \in DOMAIN Ascii : Ascii[i] = c)

lowerChar(c) ==
    IF c \in Range(UpperCase)
    THEN LowerCase[CHOOSE i \in DOMAIN UpperCase : UpperCase[i] = c]
    ELSE c
lower(s) == [i \in DOMAIN s |-> lowerChar(s[i])]

RECURSIVE lstrip(_)
lstrip(s) == IF s # <<>> /\ Head(s) \in Whitespace THEN lstrip(Tail(s)) ELSE s
RECURSIVE rstrip(_)
rstrip(s) ==
    IF s # <<>> /\ s[Len(s)] \in Whitespace THEN rstrip(SubSeq(s, 1, Len(s) - 1)) ELSE s
strip(s) == rstrip(lstrip(s))

startswith(s, p) == Len(s) >= Len(p) /\ SubSeq(s, 1, Len(p)) = p
endswith(s, p) == Len(s) >= Len(p) /\ SubSeq(s, Len(s) - Len(p) + 1, Len(s)) = p

\* the positions (1-based) at which p occurs in s
Occurrences(s, p) == {i \in 1..(Len(s) - Len(p) + 1) : SubSeq(s, i, i + Len(p) - 1) = p}
\* `p in s`
contains(s, p) == Occurrences(s, p) # {}
\* s.find(p), 1-based; 0 when p does not occur
FirstOf(S) == IF S = {} THEN 0 ELSE SetMin(S)
find(s, p) == FirstOf(Occurrences(s, p))

\* s.split(p, 1) when p occurs in s
split1(s, p) == <<SubSeq(s, 1, find(s, p) - 1), SubSeq(s, find(s, p) + Len(p), Len(s))>>

\* s.split(p): every piece, the empty ones included
RECURSIVE split(_, _)
split(s, p) ==
    IF contains(s, p) THEN <<split1(s, p)[1]>> \o split(split1(s, p)[2], p) ELSE <<s>>

\* s.count(p): occurrences counted left to right without overlap
RECURSIVE count(_, _)
count(s, p) == IF contains(s, p) THEN 1 + count(split1(s, p)[2], p) ELSE 0

\* s.replace(p, r)
RECURSIVE replace(_, _, _)
replace(s, p, r) ==
    IF contains(s, p) THEN split1(s, p)[1] \o r \o replace(split1(s, p)[2], p, r) ELSE s

\* sep.join(parts)
RECURSIVE join(_, _)
join(sep, parts) ==
    IF parts = <<>> THEN <<>>
    ELSE IF Len(parts) = 1 THEN parts[1]
    ELSE parts[1] \o sep \o join(sep, Tail(parts))

\* the length of the longest prefix of s made of characters of the set C
RECURSIVE PrefixLen(_, _)
PrefixLen(s, C) == IF s # <<>> /\ Head(s) \in C THEN 1 + PrefixLen(Tail(s), C) ELSE 0

\* s is an optional sign followed by one or more digits (what int() accepts here)
Unsigned(t) == IF t # <<>> /\ t[1] \in {"-", "+"} THEN Tail(t) ELSE t
SignOf(t) == IF t # <<>> /\ t[1] = "-" THEN 0 - 1 ELSE 1

IsIntText(s) ==
    /\ Unsigned(strip(s)) # <<>>
    /\ \A i \in DOMAIN Unsigned(strip(s)) : Unsigned(strip(s))[i] \in Digits

RECURSIVE NatOf(_)
NatOf(d) ==
    IF d = <<>> THEN 0 ELSE 10 * NatOf(SubSeq(d, 1, Len(d) - 1)) + (ord(d[Len(d)]) - 48)
\* int(s) for a text IsIntText accepts
IntOf(s) == SignOf(strip(s)) * NatOf(Unsigned(strip(s)))

RECURSIVE NatText(_)
NatText(n) == IF n < 10 THEN <<Ascii[17 + n]>> ELSE NatText(n \div 10) \o <<Ascii[17 + (n % 10)]>>
\* str(n) for an int
IntText(n) == IF n < 0 THEN <<"-">> \o NatText(0 - n) ELSE NatText(n)

\* a < b for two str values: lexicographic by code point
RECURSIVE StrLess(_, _)
StrLess(a, b) ==
    IF b = <<>> THEN FALSE
    ELSE IF a = <<>> THEN TRUE
    ELSE IF Head(a) = Head(b) THEN StrLess(Tail(a), Tail(b))
    ELSE ord(Head(a)) < ord(Head(b))

-----------------------------------------------------------------------------
(* Values and records.                                                     *)
(* A value is [t, n, d, s]: t is its Python type, n/d the number it holds  *)
(* (d = 1 for int and bool), s the text of a str.  A record is a dict: a   *)
(* sequence of <<key, value>> pairs in insertion order, keys distinct.     *)

None == [t |-> "null", n |-> 0, d |-> 1, s |-> ""]
PyInt(i) == [t |-> "int", n |-> i, d |-> 1, s |-> ""]
PyBool(b) == [t |-> "bool", n |-> IF b THEN 1 ELSE 0, d |-> 1, s |-> ""]
PyText(x) == [t |-> "str", n |-> 0, d |-> 1, s |-> x]

RECURSIVE Gcd(_, _)
Gcd(a, b) == IF b = 0 THEN a ELSE Gcd(b, a % b)
Abs(a) == IF a < 0 THEN 0 - a ELSE a
\* the float num/den (den > 0), kept in lowest terms
PyFloat(num, den) ==
    [t |-> "float", n |-> num \div Gcd(Abs(num), den), d |-> den \div Gcd(Abs(num), den),
     s |-> ""]

\* isinstance(v, (int, float)); bool is a subclass of int
IsNum(v) == v.t \in {"int", "float", "bool"}

\* key in record
has(record, key) == \E i \in DOMAIN record : record[i][1] = key
\* record.get(key): None when the key is missing
get(record, key) ==
    IF has(record, key)
    THEN record[CHOOSE i \in DOMAIN record : record[i][1] = key][2]
    ELSE None
\* record[key] = value on a dict: an existing key keeps its place
put(record, key, value) ==
    IF has(record, key)
    THEN [i \in DOMAIN record |->
            IF record[i][1] = key THEN <<key, value>> ELSE record[i]]
    ELSE Append(record, <<key, value>>)
\* s is an optional sign, digits and one point, at least one digit (float() accepts it)
IsFloatText(s) ==
    /\ count(Unsigned(strip(s)), <<".">>) = 1
    /\ Len(Unsigned(strip(s))) >= 2
    /\ \A i \in DOMAIN Unsigned(strip(s)) : Unsigned(strip(s))[i] \in Digits \cup {"."}
\* float(s) for a text IsFloatText accepts
RECURSIVE Pow10(_)
Pow10(k) == IF k = 0 THEN 1 ELSE 10 * Pow10(k - 1)

FloatOf(s) ==
    LET parts == split1(Unsigned(strip(s)), <<".">>)
    IN PyFloat(SignOf(strip(s)) * NatOf(parts[1] \o parts[2]), Pow10(Len(parts[2])))

\* the digits of num/den after the point, den dividing a power of ten
RECURSIVE FracText(_, _)
FracText(num, den) ==
    IF num = 0 THEN <<>>
    ELSE NatText((10 * num) \div den) \o FracText((10 * num) % den, den)
\* str(v)
PyStr(v) ==
    CASE v.t = "str" -> Chars(v.s)
      [] v.t = "int" -> IntText(v.n)
      [] v.t = "bool" -> IF v.n = 1 THEN Chars("True") ELSE Chars("False")
      [] v.t = "null" -> Chars("None")
      [] v.t = "float" ->
            (IF v.n < 0 THEN <<"-">> ELSE <<>>)
            \o NatText(Abs(v.n) \div v.d) \o <<".">>
            \o (IF Abs(v.n) % v.d = 0 THEN <<"0">> ELSE FracText(Abs(v.n) % v.d, v.d))

\* a == b
PyEq(a, b) ==
    IF IsNum(a) /\ IsNum(b) THEN a.n * b.d = b.n * a.d
    ELSE IF a.t = "str" /\ b.t = "str" THEN a.s = b.s
    ELSE a.t = "null" /\ b.t = "null"
\* a < b raises TypeError unless both are numbers or both are str
Orderable(a, b) == (IsNum(a) /\ IsNum(b)) \/ (a.t = "str" /\ b.t = "str")
\* a < b, for Orderable(a, b)
PyLess(a, b) ==
    IF IsNum(a) THEN a.n * b.d < b.n * a.d ELSE StrLess(Chars(a.s), Chars(b.s))

-----------------------------------------------------------------------------
(* utils.py *)

safe_get(obj, path) ==
    \* a record of the model holds no nested dict: a dotted path finds a
    \* non-dict (or None) after its first key and returns the default
    IF contains(path, <<".">>) THEN None ELSE get(obj, ToStr(path))

IsQuoted(s) ==
    \/ (startswith(s, <<"\"">>) /\ endswith(s, <<"\"">>))
    \/ (startswith(s, <<"'">>) /\ endswith(s, <<"'">>))

parse_value(value_str0) ==
    LET value_str == strip(value_str0)
    IN IF IsQuoted(value_str)
       THEN PyText(ToStr(SubSeq(value_str, 2, Len(value_str) - 1)))
       ELSE IF lower(value_str) = Chars("true") THEN PyBool(TRUE)
       ELSE IF lower(value_str) = Chars("false") THEN PyBool(FALSE)
       ELSE IF lower(value_str) \in {Chars("null"), Chars("none")} THEN None
       ELSE IF contains(value_str, <<".">>)
            THEN (IF IsFloatText(value_str) THEN FloatOf(value_str)
                  ELSE PyText(ToStr(value_str)))
       ELSE IF IsIntText(value_str) THEN PyInt(IntOf(value_str))
       ELSE PyText(ToStr(value_str))

\* the operators of evaluate_condition, in the order they are tried
operators == <<Chars("!="), Chars(">="), Chars("<="), Chars(">"), Chars("<"), Chars("=")>>

\* op_func(a, b) for values the operator accepts
op_func(op_str, a, b) ==
    CASE op_str = Chars("!=") -> ~PyEq(a, b)
      [] op_str = Chars("=")  -> PyEq(a, b)
      [] op_str \in {Chars(">="), Chars("<")} -> (op_str = Chars("<")) = PyLess(a, b)
      [] op_str \in {Chars("<="), Chars(">")} -> (op_str = Chars(">")) = PyLess(b, a)

\* float(v) if '.' in str(v) else int(v), for a v that is no number; v itself
\* when the conversion raises ValueError or TypeError
Coerce(v) ==
    IF v.t # "str" THEN v
    ELSE IF contains(Chars(v.s), <<".">>)
         THEN (IF IsFloatText(Chars(v.s)) THEN FloatOf(Chars(v.s)) ELSE v)
    ELSE (IF IsIntText(Chars(v.s)) THEN PyInt(IntOf(Chars(v.s))) ELSE v)

\* the try block of evaluate_condition: coercion, the comparison, and the
\* comparison of the two str() when the comparison raises TypeError
Compared(op_str, fv, ev) ==
    IF op_str \in {Chars("="), Chars("!=")} \/ Orderable(fv, ev)
    THEN op_func(op_str, fv, ev)
    ELSE op_func(op_str, PyText(ToStr(PyStr(fv))), PyText(ToStr(PyStr(ev))))
\* the side that is no number is coerced when the other side is one
Compare(op_str, field_value, expected_value) ==
    Compared(op_str,
             IF IsNum(expected_value) /\ ~IsNum(field_value)
             THEN Coerce(field_value) ELSE field_value,
             IF IsNum(field_value) /\ ~IsNum(expected_value)
             THEN Coerce(expected_value) ELSE expected_value)

\* a faulty ExpectedValue: the text is always parsed as a literal
ExpectedValue_literal(record, value_str) == parse_value(value_str)

\* the value the condition compares with: a field of the record when the
\* unquoted text names one, the parsed literal otherwise
ExpectedValue(record, value_str) ==
    IF /\ ~(startswith(value_str, <<"\"">>) \/ startswith(value_str, <<"'">>))
       /\ has(record, ToStr(value_str))
    THEN get(record, ToStr(value_str))
    ELSE parse_value(value_str)

\* a faulty EvaluateOperator: a null field value is compared like any other
EvaluateOperator_comparing_null(record, condition, op_str) ==
    LET parts == split1(condition, op_str)
        value_str == strip(parts[2])
        field_value == safe_get(record, strip(parts[1]))
    IN IF value_str = <<"*">> /\ op_str = Chars("=") THEN field_value # None
       ELSE IF value_str = <<"*">> /\ op_str = Chars("!=") THEN field_value = None
       ELSE Compare(op_str, field_value, ExpectedValue(record, value_str))

\* field, value = condition.split(op_str, 1), both stripped
EvaluateOperator(record, condition, op_str) ==
    LET parts == split1(condition, op_str)
        value_str == strip(parts[2])
        field_value == safe_get(record, strip(parts[1]))
    IN IF value_str = <<"*">> /\ op_str = Chars("=") THEN field_value # None
       ELSE IF value_str = <<"*">> /\ op_str = Chars("!=") THEN field_value = None
       ELSE IF field_value = None THEN FALSE
       ELSE Compare(op_str, field_value, ExpectedValue(record, value_str))
evaluate_condition(record, condition0) ==
    LET condition == strip(condition0)
        \* the operators (by their place in `operators`) that occur in condition
        found == {i \in DOMAIN operators : contains(condition, operators[i])}
    IN IF condition = <<"*">> THEN TRUE
       ELSE IF found = {} THEN FALSE
       ELSE EvaluateOperator(record, condition, operators[SetMin(found)])

comparison_operators == <<Chars("!="), Chars(">="), Chars("<="), Chars(">"), Chars("<"), Chars("=")>>

has_operator(token) ==
    \E i \in DOMAIN comparison_operators : contains(token, comparison_operators[i])

\* the counting loop of parse_multiple_conditions: each operator's
\* occurrences are counted and then blanked out of temp_str
RECURSIVE operator_count(_, _)
operator_count(temp_str, k) ==
    IF k > Len(comparison_operators) THEN 0
    ELSE LET op == comparison_operators[k]
         IN count(temp_str, op)
            + operator_count(replace(temp_str, op, [i \in 1..Len(op) |-> " "]), k + 1)

\* the body of the `if char == ' ' and not in_quotes` branch
CloseToken(conditions, current) ==
    IF current = <<>> THEN conditions
    ELSE IF has_operator(current) THEN Append(conditions, current)
    ELSE IF conditions # <<>> /\ ~has_operator(conditions[Len(conditions)])
         THEN [conditions EXCEPT ![Len(conditions)] = @ \o <<" ">> \o current]
    ELSE Append(conditions, current)

\* the while loop of parse_multiple_conditions from index i on
RECURSIVE ScanConditions(_, _, _, _, _)
ScanConditions(s, i, conditions, current, quote_char) ==
    IF i > Len(s)
    THEN \* after the loop
         IF current = <<>> THEN conditions
         ELSE IF has_operator(current) \/ conditions = <<>>
              THEN Append(conditions, current)
         ELSE [conditions EXCEPT ![Len(conditions)] = @ \o <<" ">> \o current]
    ELSE
        LET char == s[i]
            toggles == char \in {"\"", "'"} /\ (i = 1 \/ s[i - 1] # "\\")
            quote2 == IF ~toggles THEN quote_char
                      ELSE IF quote_char = "" THEN char
                      ELSE IF char = quote_char THEN ""
                      ELSE quote_char
        IN IF char = " " /\ quote2 = ""
           THEN ScanConditions(s, i + 1, CloseToken(conditions, current), <<>>, quote2)
           ELSE ScanConditions(s, i + 1, conditions, Append(current, char), quote2)

parse_multiple_conditions(condition_str) ==
    IF operator_count(condition_str, 1) = 1
    THEN <<strip(condition_str)>>
    ELSE SelectSeq(ScanConditions(condition_str, 1, <<>>, <<>>, ""),
                   LAMBDA c : strip(c) # <<>>)

-----------------------------------------------------------------------------
(* The regular expressions \s+OR\s+ and \s+by\s+ (re.IGNORECASE) *)

\* the length of the match of \s+<kw>\s+ that starts at index i of s; 0 when
\* there is none (both \s+ are greedy)
KeywordMatchLen(s, i, kw) ==
    LET lead == PrefixLen(SubSeq(s, i, Len(s)), Whitespace)
        at == i + lead
        word == SubSeq(s, at, at + Len(kw) - 1)
        trail == PrefixLen(SubSeq(s, at + Len(kw), Len(s)), Whitespace)
    IN IF lead >= 1 /\ at + Len(kw) - 1 <= Len(s) /\ lower(word) = kw /\ trail >= 1
       THEN lead + Len(kw) + trail
       ELSE 0

\* re.search: the start of the leftmost match, 0 when there is none
KeywordSearch(s, kw) == FirstOf({i \in DOMAIN s : KeywordMatchLen(s, i, kw) > 0})

\* re.split(r'\s+<kw>\s+', s, flags=re.IGNORECASE)
RECURSIVE KeywordSplit(_, _)
KeywordSplit(s, kw) ==
    LET i == KeywordSearch(s, kw)
    IN IF i = 0 THEN <<s>>
       ELSE <<SubSeq(s, 1, i - 1)>>
            \o KeywordSplit(SubSeq(s, i + KeywordMatchLen(s, i, kw), Len(s)), kw)

-----------------------------------------------------------------------------
(* What a stage returns.                                                   *)
(*   raised: the call raised an exception instead of returning             *)
(*   out:    the list it returns                                           *)
(*   from:   from[k] = j when out[k] is the very record object input[j],   *)
(*           0 when out[k] is a record the stage built                     *)
(*   same:   the returned list is the input list object itself             *)
(*   inp:    the contents of the input list when the call returns          *)

\* `return data`
Same(d) ==
    [raised |-> FALSE, out |-> d, from |-> [i \in DOMAIN d |-> i],
     same |-> TRUE, inp |-> d]
\* a new list of the input's record objects at the positions idx
Picked(d, idx) ==
    [raised |-> FALSE, out |-> [k \in DOMAIN idx |-> d[idx[k]]], from |-> idx,
     same |-> FALSE, inp |-> d]
\* a new list of records the stage built; the input is left as it was
Built(d, records) ==
    [raised |-> FALSE, out |-> records, from |-> [k \in DOMAIN records |-> 0],
     same |-> FALSE, inp |-> d]
\* an exception leaves the stage
Raised(d) ==
    [raised |-> TRUE, out |-> <<>>, from |-> <<>>, same |-> FALSE, inp |-> d]

\* the positions of a list, in order
Positions(d) == [i \in DOMAIN d |-> i]

\* the numbers of the set S in increasing order
RECURSIVE Ascending(_)
Ascending(S) ==
    IF S = {} THEN <<>> ELSE <<SetMin(S)>> \o Ascending(S \ {SetMin(S)})

-----------------------------------------------------------------------------
(* commands/search.py *)

\* strips one leading "(" and one trailing ")" when both are there
StripParens(s) ==
    IF startswith(s, <<"(">>) /\ endswith(s, <<")">>)
    THEN strip(SubSeq(s, 2, Len(s) - 1))
    ELSE s

\* any(evaluate_condition(record, part) for part in or_parts), each part
\* stripped and without its own parentheses
SearchAny(d, or_parts) ==
    Picked(d, Ascending({i \in DOMAIN d :
        \E k \in DOMAIN or_parts :
            evaluate_condition(d[i], StripParens(strip(or_parts[k])))}))
execute_search_with_or(d, args0) ==
    SearchAny(d, KeywordSplit(StripParens(strip(args0)), Chars("or")))

\* all(evaluate_condition(record, cond) for cond in conditions)
SearchAll(d, conditions) ==
    Picked(d, Ascending({i \in DOMAIN d :
        \A k \in DOMAIN conditions : evaluate_condition(d[i], conditions[k])}))
\* a faulty execute_search: the match-all condition returns no record
execute_search_dropping_all(d, args) ==
    IF args = <<>> \/ args = <<"*">> THEN Built(d, <<>>)
    ELSE IF KeywordSearch(args, Chars("or")) # 0 THEN execute_search_with_or(d, args)
    ELSE SearchAll(d, parse_multiple_conditions(args))
execute_search(d, args) ==
    IF args = <<>> \/ args = <<"*">> THEN Same(d)
    ELSE IF KeywordSearch(args, Chars("or")) # 0 THEN execute_search_with_or(d, args)
    ELSE SearchAll(d, parse_multiple_conditions(args))

-----------------------------------------------------------------------------
(* parser.py *)

\* a command object: its class and its args (SPLCommand.__init__ strips them)
Command(kind, args) == [kind |-> kind, args |-> ToStr(strip(args))]

COMMAND_MAP ==
    [name \in {"search", "where", "stats", "fields", "rename", "eval",
               "sort", "head", "tail", "table"} |->
        CASE name \in {"search", "where"} -> "Search"
          [] name = "stats" -> "Stats"
          [] name = "fields" -> "Fields"
          [] name = "rename" -> "Rename"
          [] name = "eval" -> "Eval"
          [] name = "sort" -> "Sort"
          [] name = "head" -> "Head"
          [] name = "tail" -> "Tail"
          [] name = "table" -> "Table"]

\* the while loop of _split_by_pipe from index i on; the characters that
\* are no quote, parenthesis or pipe only extend `current`, so a run of them
\* is taken in one step
PipeSpecial == {"\"", "'", "(", ")", "|"}
NextSpecial(q, i) == SetMin({j \in i..Len(q) : q[j] \in PipeSpecial} \cup {Len(q) + 1})
RECURSIVE ScanPipes(_, _, _, _, _, _)
ScanPipes(q, i, parts, current, quote_char, in_parens) ==
    IF i > Len(q)
    THEN (IF current # <<>> THEN Append(parts, current) ELSE parts)
    ELSE
        LET char == q[i]
            in_quotes == quote_char # ""
            n == NextSpecial(q, i)
        IN IF char \in {"\"", "'"} /\ (i = 1 \/ q[i - 1] # "\\")
           THEN ScanPipes(q, i + 1, parts, Append(current, char),
                          IF ~in_quotes THEN char
                          ELSE IF char = quote_char THEN "" ELSE quote_char,
                          in_parens)
           ELSE IF char = "(" /\ ~in_quotes
           THEN ScanPipes(q, i + 1, parts, Append(current, char), quote_char, in_parens + 1)
           ELSE IF char = ")" /\ ~in_quotes
           THEN ScanPipes(q, i + 1, parts, Append(current, char), quote_char, in_parens - 1)
           ELSE IF char = "|" /\ ~in_quotes /\ in_parens = 0
           THEN ScanPipes(q, i + 1, Append(parts, current), <<>>, quote_char, in_parens)
           ELSE IF char \in PipeSpecial
           THEN ScanPipes(q, i + 1, parts, Append(current, char), quote_char, in_parens)
           ELSE ScanPipes(q, n, parts, current \o SubSeq(q, i, n - 1), quote_char, in_parens)

split_by_pipe(q) == ScanPipes(q, 1, <<>>, <<>>, "", 0)

\* the command one non-empty, stripped segment becomes (the body of the for
\* loop of parse); the pattern is ^(\w+)\s*(.*)
\* a faulty ParsePart: an unknown leading word is dropped from the condition
ParsePart_dropping_word(part) ==
    LET w == PrefixLen(part, WordChars)
        cmd_name == ToStr(lower(SubSeq(part, 1, w)))
    IN IF w = 0 THEN Command("Search", part)
       ELSE Command(IF cmd_name \in DOMAIN COMMAND_MAP THEN COMMAND_MAP[cmd_name] ELSE "Search",
                    strip(SubSeq(part, w + 1, Len(part))))

ParsePart(part) ==
    LET w == PrefixLen(part, WordChars)
        cmd_name == ToStr(lower(SubSeq(part, 1, w)))
    IN IF w = 0 \/ cmd_name \notin DOMAIN COMMAND_MAP
       THEN Command("Search", part)
       ELSE Command(COMMAND_MAP[cmd_name], strip(SubSeq(part, w + 1, Len(part))))

\* the for loop of parse: one command per non-empty segment, in order
RECURSIVE ParseParts(_)
ParseParts(parts) ==
    IF parts = <<>> THEN <<>>
    ELSE (IF strip(Head(parts)) = <<>> THEN <<>> ELSE <<ParsePart(strip(Head(parts)))>>)
         \o ParseParts(Tail(parts))

\* a faulty WithDefaultSearch: no `search *` is put in front
WithDefaultSearch_omitted(cmds) == cmds
\* a pipeline whose first command is no search gets a leading `search *`
WithDefaultSearch(cmds) ==
    IF cmds # <<>> /\ cmds[1].kind # "Search"
    THEN <<Command("Search", <<"*">>)>> \o cmds
    ELSE cmds

\* SPLParser(query).parse(); SPLParser.__init__ strips the query
parse(query0) ==
    WithDefaultSearch(IF strip(query0) = <<>> THEN <<>>
                      ELSE ParseParts(split_by_pipe(strip(query0))))

-----------------------------------------------------------------------------
(* commands/stats.py: parsing the aggregation specs *)

\* the functions of get_aggregation_function modelled here, by the name of
\* the Python function each keyword maps to
get_aggregation_function ==
    [func_name \in {"count", "sum", "avg", "mean", "min", "max", "dc", "distinct_count"} |->
        CASE func_name = "count" -> "agg_count"
          [] func_name = "sum" -> "agg_sum"
          [] func_name \in {"avg", "mean"} -> "agg_avg"
          [] func_name = "min" -> "agg_min"
          [] func_name = "max" -> "agg_max"
          [] func_name \in {"dc", "distinct_count"} -> "agg_distinct_count"]

\* one parsed aggregation: (result_name, agg_func, field_name); field_name is
\* <<>> for None and <<name>> for a str
AggSpec(result_name, agg_func, field_name) ==
    [name |-> ToStr(result_name), func |-> agg_func, field |-> field_name]

\* the for loop of split_by_comma from index i on
RECURSIVE ScanCommas(_, _, _, _, _)
ScanCommas(s, i, parts, current, depth) ==
    IF i > Len(s)
    THEN (IF current # <<>> THEN Append(parts, current) ELSE parts)
    ELSE LET char == s[i]
         IN IF char = "(" THEN ScanCommas(s, i + 1, parts, Append(current, char), depth + 1)
            ELSE IF char = ")" THEN ScanCommas(s, i + 1, parts, Append(current, char), depth - 1)
            ELSE IF char = "," /\ depth = 0 THEN ScanCommas(s, i + 1, Append(parts, current), <<>>, depth)
            ELSE ScanCommas(s, i + 1, parts, Append(current, char), depth)

split_by_comma(s) == ScanCommas(s, 1, <<>>, <<>>, 0)

\* the for loop of _tokenize_aggregations from index i on
RECURSIVE ScanTokens(_, _, _, _, _)
ScanTokens(s, i, tokens, current, in_parens) ==
    IF i > Len(s)
    THEN (IF current # <<>> THEN Append(tokens, current) ELSE tokens)
    ELSE LET char == s[i]
         IN IF char = "(" THEN ScanTokens(s, i + 1, tokens, Append(current, char), in_parens + 1)
            ELSE IF char = ")" THEN ScanTokens(s, i + 1, tokens, Append(current, char), in_parens - 1)
            ELSE IF char \in {" ", ","} /\ in_parens = 0
                 THEN ScanTokens(s, i + 1,
                                 IF current # <<>> THEN Append(tokens, current) ELSE tokens,
                                 <<>>, in_parens)
            ELSE ScanTokens(s, i + 1, tokens, Append(current, char), in_parens)

tokenize_aggregations(agg_str) == ScanTokens(agg_str, 1, <<>>, <<>>, 0)

\* _parse_single_aggregation(spec, alias): a sequence holding the parsed
\* aggregation, or the empty sequence for None.  alias is <<>> for None.
\* re.match(r'(\w+)\s*\(\s*([^)]*)\s*\)', spec): w is the length of the
\* leading \w+, afterw what follows it, open the place of the "(" in afterw
AggMatch(spec) ==
    LET w == PrefixLen(spec, WordChars)
        afterw == SubSeq(spec, w + 1, Len(spec))
        open == PrefixLen(afterw, Whitespace) + 1
    IN IF /\ w > 0
          /\ open <= Len(afterw) /\ afterw[open] = "("
          /\ contains(SubSeq(afterw, open + 1, Len(afterw)), <<")">>)
       THEN [matched |-> TRUE, func_name |-> SubSeq(spec, 1, w),
             field_name |-> strip(split1(SubSeq(afterw, open + 1, Len(afterw)), <<")">>)[1])]
       ELSE [matched |-> FALSE, func_name |-> spec, field_name |-> <<>>]
ParseNamed_ignoring_alias(m, alias) ==
    LET func_name == ToStr(lower(m.func_name))
    IN IF func_name \notin DOMAIN get_aggregation_function THEN <<>>
       ELSE IF m.matched
       THEN <<AggSpec(IF m.field_name # <<>>
                      THEN Chars(func_name) \o <<"(">> \o m.field_name \o <<")">>
                      ELSE Chars(func_name),
                      get_aggregation_function[func_name], <<ToStr(m.field_name)>>)>>
       ELSE <<AggSpec(Chars(func_name), get_aggregation_function[func_name], <<>>)>>

\* the aggregation of a match m, of the function func_name
ParseNamed(m, alias) ==
    LET func_name == ToStr(lower(m.func_name))
    IN IF func_name \notin DOMAIN get_aggregation_function THEN <<>>
       ELSE IF m.matched
       THEN <<AggSpec(IF alias # <<>> THEN alias
                      ELSE IF m.field_name # <<>>
                           THEN Chars(func_name) \o <<"(">> \o m.field_name \o <<")">>
                           ELSE Chars(func_name),
                      get_aggregation_function[func_name], <<ToStr(m.field_name)>>)>>
       ELSE <<AggSpec(IF alias # <<>> THEN alias ELSE Chars(func_name),
                      get_aggregation_function[func_name], <<>>)>>

ParseSpec(spec, alias) == ParseNamed(AggMatch(spec), alias)
\* an "as" inside the spec itself, at as_at (0 when there is none)
ParseAs(stripped, alias0, as_at) ==
    ParseSpec(IF as_at = 0 THEN stripped ELSE strip(SubSeq(stripped, 1, as_at - 1)),
              IF as_at = 0 THEN alias0
              ELSE strip(SubSeq(stripped,
                                as_at + KeywordMatchLen(stripped, as_at, Chars("as")),
                                Len(stripped))))

parse_single_aggregation(spec0, alias0) ==
    IF strip(spec0) = <<>> THEN <<>>
    ELSE ParseAs(strip(spec0), alias0,
                 IF contains(lower(strip(spec0)), Chars(" as "))
                 THEN KeywordSearch(strip(spec0), Chars("as")) ELSE 0)

\* the legacy loop of parse_aggregations over the comma-separated parts
RECURSIVE ParseLegacy(_)
ParseLegacy(parts) ==
    IF parts = <<>> THEN <<>>
    ELSE (IF strip(Head(parts)) = <<>> THEN <<>>
          ELSE parse_single_aggregation(strip(Head(parts)), <<>>))
         \o ParseLegacy(Tail(parts))

\* the while loop of parse_aggregations over the tokens from index i on
RECURSIVE ParseTokens(_, _)
ParseTokens(tokens, i) ==
    LET has_alias == i + 2 <= Len(tokens) /\ lower(tokens[i + 1]) = Chars("as")
    IN IF i > Len(tokens) THEN <<>>
       ELSE IF ~(strip(tokens[i]) # <<>>
                 /\ (contains(tokens[i], <<"(">>) \/ lower(tokens[i]) = Chars("count")))
       THEN ParseTokens(tokens, i + 1)
       ELSE parse_single_aggregation(tokens[i], IF has_alias THEN tokens[i + 2] ELSE <<>>)
            \o ParseTokens(tokens, IF has_alias THEN i + 3 ELSE i + 1)

\* a faulty parse_aggregations: the legacy syntax whenever there is a comma
parse_aggregations_legacy_on_comma(agg_str) ==
    IF contains(agg_str, <<",">>)
    THEN ParseLegacy(split_by_comma(agg_str))
    ELSE ParseTokens(tokenize_aggregations(agg_str), 1)

parse_aggregations(agg_str) ==
    IF contains(agg_str, <<",">>) /\ ~contains(lower(agg_str), Chars(" as "))
    THEN ParseLegacy(split_by_comma(agg_str))
    ELSE ParseTokens(tokenize_aggregations(agg_str), 1)

-----------------------------------------------------------------------------
(* commands/stats.py: the aggregation functions.                           *)
(* Each returns [raised, v]: v is the value returned, raised tells that    *)
(* the call raised an exception instead.                                   *)

Returns(v) == [raised |-> FALSE, v |-> v]
Raises == [raised |-> TRUE, v |-> None]

\* record.get(field) for a field_name that may be None
FieldOf(record, field_name) ==
    IF field_name = <<>> THEN None ELSE get(record, field_name[1])

\* [record.get(field) for record in data if that is not None]
NonNull(d, field_name) ==
    SelectSeq([i \in DOMAIN d |-> FieldOf(d[i], field_name)], LAMBDA v : v # None)

\* float(v) returns (it raises ValueError or TypeError otherwise)
Floatable(v) ==
    \/ IsNum(v)
    \/ (v.t = "str" /\ (IsIntText(Chars(v.s)) \/ IsFloatText(Chars(v.s))))
\* float(v) for a Floatable v
ToFloat(v) ==
    IF IsNum(v) THEN PyFloat(v.n, v.d)
    ELSE IF IsFloatText(Chars(v.s)) THEN FloatOf(Chars(v.s))
    ELSE PyFloat(IntOf(Chars(v.s)), 1)

\* the sum of the floats of a sequence
RECURSIVE FloatSum(_)
FloatSum(vs) ==
    IF vs = <<>> THEN PyFloat(0, 1)
    ELSE LET rest == FloatSum(Tail(vs))
         IN PyFloat(Head(vs).n * rest.d + rest.n * Head(vs).d, Head(vs).d * rest.d)

\* the float(value) of the values float() accepts, the others skipped
Floats(d, field_name) ==
    LET ok == SelectSeq(NonNull(d, field_name), Floatable)
    IN [i \in DOMAIN ok |-> ToFloat(ok[i])]

\* a faulty agg_count: the records are counted by their non-null field
\* values also when no field is given
agg_count_non_null(d, field_name) == Returns(PyInt(Len(NonNull(d, field_name))))
agg_count(d, field_name) ==
    IF field_name # <<>> /\ field_name[1] # ""
    THEN Returns(PyInt(Len(NonNull(d, field_name))))
    ELSE Returns(PyInt(Len(d)))

agg_sum(d, field_name) ==
    LET values == Floats(d, field_name)
    IN IF values = <<>> THEN Returns(PyInt(0)) ELSE Returns(FloatSum(values))

MeanOf(values, total) ==
    IF values = <<>> THEN Returns(PyInt(0))
    ELSE Returns(PyFloat(total.n, total.d * Len(values)))
agg_avg(d, field_name) == MeanOf(Floats(d, field_name), FloatSum(Floats(d, field_name)))

\* min(), max() and sorted() compare the values with <, which raises
\* TypeError between a number and a str
Comparable(values) ==
    \A i, j \in DOMAIN values : Orderable(values[i], values[j])

\* min() returns the first of the smallest values
agg_min(d, field_name) ==
    LET values == NonNull(d, field_name)
    IN IF values = <<>> THEN Returns(None)
       ELSE IF ~Comparable(values) THEN Raises
       ELSE Returns(values[SetMin({i \in DOMAIN values :
                                     \A j \in DOMAIN values : ~PyLess(values[j], values[i])})])

agg_max(d, field_name) ==
    LET values == NonNull(d, field_name)
    IN IF values = <<>> THEN Returns(None)
       ELSE IF ~Comparable(values) THEN Raises
       ELSE Returns(values[SetMin({i \in DOMAIN values :
                                     \A j \in DOMAIN values : ~PyLess(values[i], values[j])})])

\* len(agg_values(data, field)): agg_values sorts the set of the values
agg_distinct_count(d, field_name) ==
    LET values == NonNull(d, field_name)
    IN IF ~Comparable(values) THEN Raises
       ELSE Returns(PyInt(Cardinality(
               {i \in DOMAIN values : \A j \in 1..(i - 1) : ~PyEq(values[j], values[i])})))

\* agg_func(data, field_name)
Aggregate(agg_func, d, field_name) ==
    CASE agg_func = "agg_count" -> agg_count(d, field_name)
      [] agg_func = "agg_sum" -> agg_sum(d, field_name)
      [] agg_func = "agg_avg" -> agg_avg(d, field_name)
      [] agg_func = "agg_min" -> agg_min(d, field_name)
      [] agg_func = "agg_max" -> agg_max(d, field_name)
      [] agg_func = "agg_distinct_count" -> agg_distinct_count(d, field_name)

-----------------------------------------------------------------------------
(* commands/stats.py: execute_stats and execute_eventstats *)

\* the split of the arguments at the first \s+by\s+
AggPart(args) ==
    LET at == KeywordSearch(args, Chars("by"))
    IN IF at = 0 THEN strip(args) ELSE strip(SubSeq(args, 1, at - 1))
\* [f.strip() for f in text.split(',')]
StrippedNames(names) == [k \in DOMAIN names |-> ToStr(strip(names[k]))]

GroupByFields(args) ==
    LET at == KeywordSearch(args, Chars("by"))
    IN IF at = 0 THEN <<>>
       ELSE StrippedNames(split(strip(SubSeq(args,
                                             at + KeywordMatchLen(args, at, Chars("by")),
                                             Len(args))),
                                <<",">>))

\* the group key of a record: the values of the group-by fields, None for a
\* missing one; two keys are one dict key when they are equal with ==
GroupKey(record, group_by_fields) ==
    [k \in DOMAIN group_by_fields |-> get(record, group_by_fields[k])]
SameKey(a, b) == \A k \in DOMAIN a : PyEq(a[k], b[k])

\* a faulty Groups: the records that lack a group-by field are left out
Groups_skipping_missing(d, group_by_fields) ==
    LET present == {i \in DOMAIN d :
                        \A k \in DOMAIN group_by_fields : has(d[i], group_by_fields[k])}
        key(i) == GroupKey(d[i], group_by_fields)
        order == Ascending({i \in present :
                                \A j \in present : j < i => ~SameKey(key(j), key(i))})
    IN [g \in DOMAIN order |->
            Ascending({i \in present : SameKey(key(i), key(order[g]))})]
\* groups.items(): the groups in the order their keys are first met, each
\* the positions of its records in the order of the data
Groups(d, group_by_fields) ==
    LET key(i) == GroupKey(d[i], group_by_fields)
        firsts == {i \in DOMAIN d : \A j \in 1..(i - 1) : ~SameKey(key(j), key(i))}
        order == Ascending(firsts)
    IN [g \in DOMAIN order |->
            Ascending({i \in DOMAIN d : SameKey(key(i), key(order[g]))})]

\* the records of the data at the positions idx
Sub(d, idx) == [k \in DOMAIN idx |-> d[idx[k]]]

\* result[agg_name] = agg_func(group_data, field_name) for every aggregation,
\* on the record `result`
RECURSIVE AddAggregates(_, _, _, _)
\* agg_func(group_data, field_name) of every aggregation, in order
Aggregates(agg_funcs, group_data) ==
    [k \in DOMAIN agg_funcs |->
        Aggregate(agg_funcs[k].func, group_data, agg_funcs[k].field)]
AddAggregates(record, agg_funcs, results, k) ==
    IF k > Len(agg_funcs) THEN record
    ELSE AddAggregates(put(record, agg_funcs[k].name, results[k].v), agg_funcs, results, k + 1)

\* result[field] = value for every (field, value) of the group key
RECURSIVE KeyRecord(_, _, _)
KeyRecord(record, group_by_fields, key) ==
    IF group_by_fields = <<>> THEN record
    ELSE KeyRecord(put(record, Head(group_by_fields), Head(key)),
                   Tail(group_by_fields), Tail(key))

\* the result record of one group: the group key's fields, then the aggregates
StatsRecord(record, agg_funcs, results) ==
    [raised |-> \E k \in DOMAIN results : results[k].raised,
     record |-> AddAggregates(record, agg_funcs, results, 1)]

StatsResults(d, rs) ==
    IF \E g \in DOMAIN rs : rs[g].raised THEN Raised(d)
    ELSE Built(d, [g \in DOMAIN rs |-> rs[g].record])
StatsGroups(d, agg_funcs, group_by_fields, groups) ==
    StatsResults(d, [g \in DOMAIN groups |->
        StatsRecord(KeyRecord(<<>>, group_by_fields,
                              GroupKey(d[groups[g][1]], group_by_fields)),
                    agg_funcs, Aggregates(agg_funcs, Sub(d, groups[g])))])
\* without group-by fields the whole data is aggregated into one record
StatsParsed(d, agg_funcs, group_by_fields) ==
    IF agg_funcs = <<>> THEN Built(d, <<>>)
    ELSE StatsGroups(d, agg_funcs, group_by_fields,
                     IF group_by_fields # <<>> THEN Groups(d, group_by_fields)
                     ELSE <<Positions(d)>>)
\* a faulty execute_stats: an empty input is aggregated as well
execute_stats_aggregating_empty(d, args) ==
    StatsParsed(d, parse_aggregations(AggPart(args)), GroupByFields(args))
execute_stats(d, args) ==
    IF d = <<>> THEN Built(d, <<>>)
    ELSE StatsParsed(d, parse_aggregations(AggPart(args)), GroupByFields(args))

\* the group (a sequence of positions) the record at position i belongs to
GroupOf(groups, i) ==
    groups[CHOOSE g \in DOMAIN groups : \E k \in DOMAIN groups[g] : groups[g][k] = i]

\* new_record = record.copy() and the assignments to new_record: the record
\* of the input is read and left as it is
Enriched(record, agg_funcs, results) ==
    [raised |-> \E k \in DOMAIN results : results[k].raised, rec |-> record,
     new |-> AddAggregates(record, agg_funcs, results, 1)]

EventResults(d, each) ==
    IF \E i \in DOMAIN each : each[i].raised THEN Raised(d)
    ELSE Built([i \in DOMAIN each |-> each[i].rec], [i \in DOMAIN each |-> each[i].new])
\* a faulty EventGroups: every aggregate is computed over the whole data
EventGroups_over_all(d, agg_funcs, group_by_fields, groups) ==
    EventResults(d, [i \in DOMAIN d |-> Enriched(d[i], agg_funcs, Aggregates(agg_funcs, d))])
EventGroups(d, agg_funcs, group_by_fields, groups) ==
    EventResults(d, [i \in DOMAIN d |->
        Enriched(d[i], agg_funcs,
                 Aggregates(agg_funcs,
                            IF group_by_fields # <<>> THEN Sub(d, GroupOf(groups, i)) ELSE d))])
EventParsed(d, agg_funcs, group_by_fields) ==
    IF agg_funcs = <<>> THEN Same(d)
    ELSE EventGroups(d, agg_funcs, group_by_fields, Groups(d, group_by_fields))
execute_eventstats(d, args) ==
    IF d = <<>> THEN Built(d, <<>>)
    ELSE EventParsed(d, parse_aggregations(AggPart(args)), GroupByFields(args))

-----------------------------------------------------------------------------
(* commands/fields.py *)

\* [f.strip() for f in args.split(',')]
NameList(args) == StrippedNames(split(args, <<",">>))

\* {k: record.get(k) for k in field_names if k in record}
RECURSIVE Include(_, _, _)
Include(new_record, record, field_names) ==
    IF field_names = <<>> THEN new_record
    ELSE Include(IF has(record, Head(field_names))
                 THEN put(new_record, Head(field_names), get(record, Head(field_names)))
                 ELSE new_record,
                 record, Tail(field_names))

\* {k: v for k, v in record.items() if k not in field_names}
Exclude(record, field_names) ==
    SelectSeq(record, LAMBDA kv : \A k \in DOMAIN field_names : field_names[k] # kv[1])

execute_fields(d, args0) ==
    LET args == strip(args0)
        exclude_mode == startswith(args, <<"-">>)
        field_names == NameList(IF exclude_mode THEN strip(Tail(args)) ELSE args)
    IN IF d = <<>> \/ args0 = <<>> THEN Same(d)
       ELSE Built(d, [i \in DOMAIN d |->
                        IF exclude_mode THEN Exclude(d[i], field_names)
                        ELSE Include(<<>>, d[i], field_names)])

execute_table(d, args) == execute_fields(d, args)

\* re.match(r'(\S+)\s+as\s+(\S+)', part, re.IGNORECASE): <<old, new>>, or
\* <<>> when the part does not match
NonSpace == Range(Ascii) \ Whitespace
\* w: the length of the first \S+; m: the length of \s+as\s+ after it;
\* rest: what follows that; n: the length of the second \S+
RenamePairAs(part, w, m) ==
    LET rest == SubSeq(part, w + 1 + m, Len(part))
        n == PrefixLen(rest, NonSpace)
    IN IF w > 0 /\ w < Len(part) /\ m > 0 /\ n > 0
       THEN <<ToStr(SubSeq(part, 1, w)), ToStr(SubSeq(rest, 1, n))>>
       ELSE <<>>

RenamePair(part) ==
    RenamePairAs(part, PrefixLen(part, NonSpace),
                 KeywordMatchLen(part, PrefixLen(part, NonSpace) + 1, Chars("as")))

\* the mappings dict of execute_rename, as a record (a dict) of old -> new
AddMapping(mappings, pair) ==
    IF pair = <<>> THEN mappings ELSE put(mappings, pair[1], pair[2])
RECURSIVE RenameMappings(_, _)
RenameMappings(mappings, parts) ==
    IF parts = <<>> THEN mappings
    ELSE RenameMappings(AddMapping(mappings, RenamePair(strip(Head(parts)))), Tail(parts))

\* new_record[mappings.get(key, key)] = value for every item of the record
RECURSIVE Renamed(_, _, _)
Renamed(new_record, items, mappings) ==
    IF items = <<>> THEN new_record
    ELSE Renamed(put(new_record,
                     IF has(mappings, Head(items)[1]) THEN get(mappings, Head(items)[1])
                     ELSE Head(items)[1],
                     Head(items)[2]),
                 Tail(items), mappings)

execute_rename(d, args) ==
    LET mappings == RenameMappings(<<>>, split(args, <<",">>))
    IN IF d = <<>> \/ args = <<>> THEN Same(d)
       ELSE IF mappings = <<>> THEN Same(d)
       ELSE Built(d, [i \in DOMAIN d |-> Renamed(<<>>, d[i], mappings)])

-----------------------------------------------------------------------------
(* commands/sort.py *)

DefaultLimit == 10

\* get_sort_key(a) < get_sort_key(b): None is (1, 0), the others are
\* (0, type priority, value)
type_priority(v) ==
    CASE v.t = "bool" -> 0 [] v.t = "int" -> 1 [] v.t = "float" -> 2
      [] v.t = "str" -> 3 [] v.t = "null" -> 4
SortKeyLess(a, b) ==
    IF type_priority(a) # type_priority(b) THEN type_priority(a) < type_priority(b)
    ELSE IF a.t = "null" THEN FALSE
    ELSE PyLess(a, b)

\* (field_name, reverse) of one field_spec of the sort arguments
SortSpec(field_spec0) ==
    LET field_spec == strip(field_spec0)
    IN IF startswith(field_spec, <<"-">>)
       THEN [field |-> ToStr(strip(Tail(field_spec))), reverse |-> TRUE]
       ELSE IF startswith(field_spec, <<"+">>)
       THEN [field |-> ToStr(strip(Tail(field_spec))), reverse |-> FALSE]
       ELSE [field |-> ToStr(field_spec), reverse |-> FALSE]

\* list.sort(key=..., reverse=...) on the positions idx of d: stable, also
\* when reversed
\* the record at idx[a] is sorted before the one at idx[b] by its key
SortBefore(d, idx, spec, a, b) ==
    SortKeyLess(get(d[idx[IF spec.reverse THEN b ELSE a]], spec.field),
                get(d[idx[IF spec.reverse THEN a ELSE b]], spec.field))
\* how many records are placed before the one at idx[k]
SortRank(d, idx, spec, k) ==
    Cardinality({j \in DOMAIN idx : SortBefore(d, idx, spec, j, k)})
    + Cardinality({j \in 1..(k - 1) :
                    ~SortBefore(d, idx, spec, j, k) /\ ~SortBefore(d, idx, spec, k, j)})
SortedBy(d, idx, spec) ==
    [r \in DOMAIN idx |-> idx[CHOOSE k \in DOMAIN idx : SortRank(d, idx, spec, k) = r - 1]]

\* the sorts of execute_sort, the rightmost field first
RECURSIVE SortAll(_, _, _)
SortAll(d, idx, sort_specs) ==
    IF sort_specs = <<>> THEN idx
    ELSE SortAll(d, SortedBy(d, idx, sort_specs[Len(sort_specs)]),
                 SubSeq(sort_specs, 1, Len(sort_specs) - 1))

execute_sort(d, args) ==
    IF d = <<>> \/ args = <<>> THEN Same(d)
    \* result = data.copy(): the copy is sorted, the input list is not
    ELSE Picked(d, SortAll(d, Positions(d),
                           [k \in DOMAIN split(args, <<",">>) |->
                                SortSpec(split(args, <<",">>)[k])]))

\* the limit of head and tail: int(args.strip()), 10 when args is empty or
\* no integer
Limit(args) ==
    IF args # <<>> /\ IsIntText(args) THEN IntOf(args) ELSE DefaultLimit

\* data[:limit]
execute_head(d, args) ==
    LET limit == Limit(args)
    IN IF d = <<>> THEN Same(d)
       ELSE Picked(d, [k \in 1..(IF limit >= 0
                                 THEN (IF limit < Len(d) THEN limit ELSE Len(d))
                                 ELSE (IF Len(d) + limit > 0 THEN Len(d) + limit ELSE 0))
                       |-> k])

\* data[-limit:]
\* start: the first position kept (1-based)
TailOf(d, start) == Picked(d, [k \in 1..(Len(d) - start + 1) |-> start + k - 1])
execute_tail(d, args) ==
    LET limit == Limit(args)
    IN IF d = <<>> THEN Same(d)
       ELSE TailOf(d, IF limit > 0 THEN (IF limit < Len(d) THEN Len(d) - limit + 1 ELSE 1)
                      ELSE IF limit = 0 THEN 1
                      ELSE (IF 0 - limit < Len(d) THEN 1 - limit ELSE Len(d) + 1))

-----------------------------------------------------------------------------
(* commands/eval.py.                                                       *)
(* evaluate_expression hands every expression that is no constant to       *)
(* Python's eval().  The expressions modelled are a quoted or numeric      *)
(* constant, one name, and one binary operation `x op y` with op one of    *)
(* + - * / and x, y a name or an integer; the queries of this model use    *)
(* no other.                                                               *)

\* eval() of a name or an integer literal: <<value>>, or <<>> when it raises
\* NameError (a name that is no field of the record)
Operand(s, record) ==
    IF IsIntText(s) /\ s[1] \in Digits THEN <<PyInt(IntOf(s))>>
    ELSE IF has(record, ToStr(s)) THEN <<get(record, ToStr(s))>>
    ELSE <<>>

RECURSIVE Repeat(_, _)
Repeat(s, n) == IF n <= 0 THEN "" ELSE s \o Repeat(s, n - 1)

IsIntLike(v) == v.t \in {"int", "bool"}
\* x op y in Python: <<value>>, or <<>> when it raises (TypeError,
\* ZeroDivisionError)
BinaryOp(op, x, y) ==
    IF IsNum(x) /\ IsNum(y)
    THEN LET exact == IsIntLike(x) /\ IsIntLike(y)
         IN CASE op = "+" -> <<IF exact THEN PyInt(x.n + y.n)
                               ELSE PyFloat(x.n * y.d + y.n * x.d, x.d * y.d)>>
              [] op = "-" -> <<IF exact THEN PyInt(x.n - y.n)
                               ELSE PyFloat(x.n * y.d - y.n * x.d, x.d * y.d)>>
              [] op = "*" -> <<IF exact THEN PyInt(x.n * y.n)
                               ELSE PyFloat(x.n * y.n, x.d * y.d)>>
              [] op = "/" -> IF y.n = 0 THEN <<>>
                             ELSE <<PyFloat((IF y.n < 0 THEN 0 - 1 ELSE 1) * x.n * y.d,
                                            x.d * Abs(y.n))>>
    ELSE IF op = "+" /\ x.t = "str" /\ y.t = "str" THEN <<PyText(x.s \o y.s)>>
    ELSE IF op = "*" /\ x.t = "str" /\ IsIntLike(y) THEN <<PyText(Repeat(x.s, y.n))>>
    ELSE IF op = "*" /\ IsIntLike(x) /\ y.t = "str" THEN <<PyText(Repeat(y.s, x.n))>>
    ELSE <<>>

ArithOps == {"+", "-", "*", "/"}

\* eval() of `x op y`, x and y being what eval() gives for the operands
EvalOperands(op, x, y) == IF x = <<>> \/ y = <<>> THEN <<>> ELSE BinaryOp(op, x[1], y[1])

EvalSafe(safe_expr, record) ==
    LET at == {i \in DOMAIN safe_expr : safe_expr[i] \in ArithOps}
        i == SetMin(at)
    IN IF at = {} THEN Operand(safe_expr, record)
       ELSE EvalOperands(safe_expr[i],
                         Operand(strip(SubSeq(safe_expr, 1, i - 1)), record),
                         Operand(strip(SubSeq(safe_expr, i + 1, Len(safe_expr))), record))
\* eval() raised: the original expression is returned
EvalValue(expr, value) == IF value = <<>> THEN PyText(ToStr(expr)) ELSE value[1]

evaluate_expression(expr0, record) ==
    LET expr == strip(expr0)
    IN IF IsQuoted(expr) THEN PyText(ToStr(SubSeq(expr, 2, Len(expr) - 1)))
       ELSE IF contains(expr, <<".">>) /\ IsFloatText(expr) THEN FloatOf(expr)
       ELSE IF ~contains(expr, <<".">>) /\ IsIntText(expr) THEN PyInt(IntOf(expr))
       \* safe_expr: the string concatenation operator " . " becomes " + "
       ELSE EvalValue(expr, EvalSafe(replace(expr, Chars(" . "), Chars(" + ")), record))

\* a faulty Evaluated: the field is assigned on the record itself, no copy
Evaluated_in_place(record, field_name, expression) ==
    [rec |-> put(record, field_name, evaluate_expression(expression, record)),
     new |-> put(record, field_name, evaluate_expression(expression, record))]
\* new_record = record.copy(); new_record[field_name] = value: the record of
\* the input is read and left as it is
Evaluated(record, field_name, expression) ==
    [rec |-> record,
     new |-> put(record, field_name, evaluate_expression(expression, record))]

EvalEach(d, each) ==
    Built([i \in DOMAIN each |-> each[i].rec], [i \in DOMAIN each |-> each[i].new])
\* re.match(r'(\w+)\s*=\s*(.+)', args): w is the length of the \w+ and
\* afterw what follows it and the white space after it
execute_eval(d, args) ==
    LET w == PrefixLen(args, WordChars)
        afterw == lstrip(SubSeq(args, w + 1, Len(args)))
    IN IF d = <<>> \/ args = <<>> THEN Same(d)
       ELSE IF ~(w > 0 /\ afterw # <<>> /\ afterw[1] = "=" /\ Tail(afterw) # <<>>)
       THEN Same(d)
       ELSE EvalEach(d, [i \in DOMAIN d |->
                           Evaluated(d[i], ToStr(SubSeq(args, 1, w)), strip(Tail(afterw)))])

-----------------------------------------------------------------------------
(* executor.py *)

\* SPL.__init__: a dict becomes a one-element list, a list is kept
SPL_init(input) == IF input.isdict THEN <<input.value>> ELSE input.value

\* SPL._execute_command: the isinstance chain.  executor.py takes the class
\* EventstatsCommand from parser.py, which defines none and has no
\* "eventstats" in COMMAND_MAP: no command the parser returns is of the kind
\* "Eventstats"
execute_command(d, command) ==
    LET args == Chars(command.args)
    IN CASE command.kind = "Search" -> execute_search(d, args)
         [] command.kind = "Stats" -> execute_stats(d, args)
         [] command.kind = "Eventstats" -> execute_eventstats(d, args)
         [] command.kind = "Fields" -> execute_fields(d, args)
         [] command.kind = "Rename" -> execute_rename(d, args)
         [] command.kind = "Table" -> execute_table(d, args)
         [] command.kind = "Eval" -> execute_eval(d, args)
         [] command.kind = "Sort" -> execute_sort(d, args)
         [] command.kind = "Head" -> execute_head(d, args)
         [] command.kind = "Tail" -> execute_tail(d, args)
         [] OTHER -> Same(d)

\* the for loop of SPL.search over the commands from the k-th on; r is
\* what the command before returned
RECURSIVE RunCommands(_, _, _)
RunCommands(r, cmds, k) ==
    IF r.raised \/ k > Len(cmds) THEN r
    ELSE RunCommands(execute_command(r.out, cmds[k]), cmds, k + 1)

\* SPL(d).search(query) as one call: what it returns, or that it raises
search(d, query0) == RunCommands(Same(d), parse(query0), 1)

-----------------------------------------------------------------------------
(* subsearch.py.  Positions are counted from 0, as in the code.            *)

\* the next index from i on that holds a bracket (len(query) if none): the
\* other characters leave depth and start as they are
NextBracket(query0, i) ==
    SetMin({j \in i..(Len(query0) - 1) : query0[j + 1] \in {"[", "]"}} \cup {Len(query0)})

\* the while loop of extract_subsearches from index i on
RECURSIVE ScanBrackets(_, _, _, _, _)
ScanBrackets(query0, i, depth, start, subsearches) ==
    IF i >= Len(query0) THEN subsearches
    ELSE IF query0[i + 1] = "["
    THEN ScanBrackets(query0, i + 1, depth + 1, IF depth = 0 THEN i ELSE start, subsearches)
    ELSE IF query0[i + 1] = "]"
    THEN (IF depth - 1 = 0 /\ start # -1
          THEN ScanBrackets(query0, i + 1, depth - 1, -1,
                            Append(subsearches,
                                   [text |-> ToStr(SubSeq(query0, start + 2, i)),
                                    start |-> start, end |-> i + 1]))
          ELSE ScanBrackets(query0, i + 1, depth - 1, start, subsearches))
    ELSE ScanBrackets(query0, NextBracket(query0, i), depth, start, subsearches)

\* a faulty extract_subsearches: it stops after the first span
extract_subsearches_first_only(query0) ==
    [query |-> ToStr(query0),
     subsearches |-> SubSeq(ScanBrackets(query0, 0, 0, -1, <<>>), 1, 1)]
\* extract_subsearches(query): the query and the (text, start, end) of each span
extract_subsearches(query0) ==
    [query |-> ToStr(query0), subsearches |-> ScanBrackets(query0, 0, 0, -1, <<>>)]

\* f'{field}="{value}"' for a str, f'{field}={value}' for any other value
FieldCondition(field, value) ==
    Chars(field) \o <<"=">>
    \o (IF value.t = "str" THEN <<"\"">> \o Chars(value.s) \o <<"\"">> ELSE PyStr(value))

\* the condition no record is meant to satisfy
Impossible == Chars("nonsearchfield=impossiblevalue")

\* a faulty FormatSingleField: the null values are kept
FormatSingleField_keeping_null(results, field) ==
    LET conditions == [k \in DOMAIN results |-> FieldCondition(field, get(results[k], field))]
    IN IF Len(conditions) = 1 THEN conditions[1]
       ELSE <<"(">> \o join(Chars(" OR "), conditions) \o <<")">>
\* the single field case of format_subsearch_results
FormatSingleField(results, field) ==
    LET values == SelectSeq([k \in DOMAIN results |-> get(results[k], field)],
                            LAMBDA v : v # None)
        conditions == [k \in DOMAIN values |-> FieldCondition(field, values[k])]
    IN IF values = <<>> THEN Impossible
       ELSE IF Len(values) = 1 THEN conditions[1]
       ELSE <<"(">> \o join(Chars(" OR "), conditions) \o <<")">>

\* the condition one result becomes in the several fields case (empty when
\* the result has no non-null field)
ResultCondition(record) ==
    LET kept == SelectSeq(record, LAMBDA kv : kv[2] # None)
        field_conditions == [k \in DOMAIN kept |-> FieldCondition(kept[k][1], kept[k][2])]
    IN IF field_conditions = <<>> THEN <<>>
       ELSE IF Len(field_conditions) = 1 THEN field_conditions[1]
       ELSE <<"(">> \o join(<<" ">>, field_conditions) \o <<")">>

\* a faulty FormatSeveralFields: one clause is written in parentheses too
FormatSeveralFields_always_parenthesized(results) ==
    LET result_conditions ==
            SelectSeq([k \in DOMAIN results |-> ResultCondition(results[k])],
                      LAMBDA c : c # <<>>)
    IN IF result_conditions = <<>> THEN Impossible
       ELSE <<"(">> \o join(Chars(" OR "), result_conditions) \o <<")">>
\* the several fields case of format_subsearch_results
FormatSeveralFields(results) ==
    LET result_conditions ==
            SelectSeq([k \in DOMAIN results |-> ResultCondition(results[k])],
                      LAMBDA c : c # <<>>)
    IN IF result_conditions = <<>> THEN Impossible
       ELSE IF Len(result_conditions) = 1 THEN result_conditions[1]
       ELSE <<"(">> \o join(Chars(" OR "), result_conditions) \o <<")">>

\* format_subsearch_results(results)
format_subsearch_results(results) ==
    IF results = <<>> THEN Impossible
    ELSE IF results[1] = <<>> THEN Impossible
    ELSE IF Len(results[1]) = 1 THEN FormatSingleField(results, results[1][1][1])
    ELSE FormatSeveralFields(results)

\* the index the replacement starts at: start_pos, or the start of the
\* field name when the text before the span ends with `=`
ActualStart(modified_query, start_pos) ==
    LET before_subsearch == rstrip(SubSeq(modified_query, 1, start_pos))
        stops == {i \in 0..(Len(before_subsearch) - 2) :
                      modified_query[i + 1] \in {" ", "|", "\t"}}
    IN IF before_subsearch # <<>> /\ before_subsearch[Len(before_subsearch)] = "="
       THEN (IF stops = {} THEN 0 ELSE 1 + CHOOSE i \in stops : \A j \in stops : j <= i)
       ELSE start_pos

\* the for loop of process_subsearches over reversed(subsearches), from the
\* k-th span down; execute_subsearch runs the text on the executor's data
\* and formats what the search returned (results)
RECURSIVE ReplaceSubsearches(_, _, _, _)
RECURSIVE ReplaceSubsearch(_, _, _, _, _)
ReplaceSubsearches(modified_query, d, subsearches, k) ==
    IF k = 0 THEN [raised |-> FALSE, v |-> ToStr(modified_query)]
    ELSE ReplaceSubsearch(modified_query, d, subsearches, k,
                          search(d, Chars(subsearches[k].text)))
ReplaceSubsearch(modified_query, d, subsearches, k, results) ==
    IF results.raised THEN [raised |-> TRUE, v |-> ""]
    ELSE ReplaceSubsearches(
            SubSeq(modified_query, 1, ActualStart(modified_query, subsearches[k].start))
            \o format_subsearch_results(results.out)
            \o SubSeq(modified_query, subsearches[k].end + 1, Len(modified_query)),
            d, subsearches, k - 1)

\* process_subsearches(query, data, executor), executor being SPL(data)
process_subsearches(query0, d) ==
    IF extract_subsearches(query0).subsearches = <<>>
    THEN [raised |-> FALSE, v |-> ToStr(query0)]
    ELSE ReplaceSubsearches(query0, d, extract_subsearches(query0).subsearches,
                            Len(extract_subsearches(query0).subsearches))

-----------------------------------------------------------------------------
(* The inputs: the records datasets are made of, and the queries.          *)

R1 == <<<<"user", PyText("alice")>>, <<"status", PyText("active")>>,
        <<"age", PyInt(30)>>, <<"city", PyText("NYC")>>>>
R2 == <<<<"user", PyText("bob")>>, <<"status", PyText("inactive")>>,
        <<"age", PyInt(25)>>, <<"city", PyText("LA")>>>>
R3 == <<<<"user", PyText("alice")>>, <<"status", PyText("active")>>,
        <<"age", PyText("35")>>>>
R4 == <<<<"user", PyText("carol")>>, <<"age", PyInt(28)>>,
        <<"city", PyText("NYC")>>, <<"count", PyInt(7)>>>>
RecordPool == {R1, R2, R3, R4}

\* the lists of at most n records of the pool
RECURSIVE ListsUpTo(_)
ListsUpTo(n) ==
    IF n = 0 THEN {<<>>}
    ELSE ListsUpTo(n - 1)
         \cup {Append(l, r) : l \in {m \in ListsUpTo(n - 1) : Len(m) = n - 1}, r \in RecordPool}

\* what the constructor is given: one record, or a list of records
ConstructorInputs ==
    {[isdict |-> TRUE, value |-> r] : r \in RecordPool}
    \cup {[isdict |-> FALSE, value |-> l] : l \in ListsUpTo(MaxRecs)}

\* A query and the structure it was written from.
\*   kind "cond":  a condition; alts are its alternatives, each a sequence
\*                 of primitives, joined by kw; outer/inner tell whether
\*                 the whole / each alternative is wrapped in parentheses
\*   kind "countby": `stats count by <arg>`
\*   other kinds:  the text as given
Query(kind, text) ==
    [kind |-> kind, text |-> text, alts |-> <<>>, outer |-> FALSE, inner |-> FALSE,
     kw |-> "", arg |-> ""]

Wrap(on, text) == IF on THEN <<"(">> \o text \o <<")">> ELSE text
CondText(alts, outer, inner, kw) ==
    ToStr(Wrap(outer,
        join(Chars(kw),
             [a \in DOMAIN alts |->
                Wrap(inner, join(<<" ">>, [k \in DOMAIN alts[a] |-> Chars(alts[a][k])]))])))
Cond(alts, outer, inner, kw) ==
    [kind |-> "cond", text |-> CondText(alts, outer, inner, kw), alts |-> alts,
     outer |-> outer, inner |-> inner, kw |-> kw, arg |-> ""]
CountBy(field) ==
    [kind |-> "countby", text |-> "stats count by " \o field, alts |-> <<>>,
     outer |-> FALSE, inner |-> FALSE, kw |-> "", arg |-> field]

Conditions ==
    { Cond(<<<<"user=\"alice\"">>>>, FALSE, FALSE, ""),
      Cond(<<<<"city=\"NYC\"", "status=\"active\"">>>>, FALSE, FALSE, ""),
      Cond(<<<<"age>26", "status!=*">>>>, FALSE, FALSE, ""),
      Cond(<<<<"user=\"alice\"">>, <<"user=\"carol\"">>>>, FALSE, FALSE, " OR "),
      Cond(<<<<"user=\"alice\"">>, <<"user=\"bob\"">>>>, TRUE, FALSE, " OR "),
      Cond(<<<<"user=\"alice\"">>, <<"age=25">>>>, FALSE, FALSE, " or "),
      Cond(<<<<"user=\"bob\"">>, <<"age>29">>, <<"count=*">>>>, FALSE, FALSE, "  Or  "),
      Cond(<<<<"user=\"alice\"">>, <<"user=\"bob\"">>>>, FALSE, TRUE, " OR "),
      Cond(<<<<"age!=30", "city=\"NYC\"">>, <<"user=\"bob\"">>>>, FALSE, FALSE, " OR "),
      Cond(<<<<"user=\"carol\"", "city=\"NYC\"">>, <<"user=\"bob\"">>>>, FALSE, TRUE, " OR "),
      Cond(<<<<"user=\"alice\"", "age=30">>, <<"user=\"bob\"", "age=25">>>>, FALSE, TRUE, " OR ") }

CountBys == {CountBy(f) : f \in {"city", "status", "age", "team", "count"}}

Pipelines ==
    { Query("empty", ""),
      Query("star", "*"),
      Query("statscount", "stats count"),
      Query("eventstats", "eventstats count"),
      Query("eventstats", "eventstats count by city"),
      Query("eventstats", "eventstats sum(age) as total, count as n by status"),
      Query("subsearch", "[search status=\"active\" | fields user] | stats count"),
      Query("pipeline", "stats min(age)"),
      Query("pipeline", "stats count by city | sort -count | head 1"),
      Query("pipeline", "search city=\"NYC\" | eval total = age + 1 | fields user, total"),
      Query("pipeline", "where age>26 | rename user as name | tail 1"),
      Query("pipeline", "sort -age, user | table user, age"),
      Query("pipeline", "eval age = age * 2 | eventstats count"),
      Query("pipeline", "head 1 | stats sum(age) as total dc(city) as cities"),
      Query("pipeline", "foo bar | | stats count") }

\* `stats <aggregations> [by <field>]`: alts holds one <<func, field, alias>>
\* per aggregation (field "" for a bare function, alias "" for none), kw the
\* text between two aggregations, arg the group-by field ("" for none)
AggDefaultName(a) == a[1] \o (IF a[2] = "" THEN "" ELSE "(" \o a[2] \o ")")
AggText(a, as) == AggDefaultName(a) \o (IF a[3] = "" THEN "" ELSE as \o a[3])
StatsArgs(aggs, sep, as, by) ==
    ToStr(join(Chars(sep), [k \in DOMAIN aggs |-> Chars(AggText(aggs[k], as))]))
    \o (IF by = "" THEN "" ELSE " by " \o by)
Aliased(aggs, sep, as, by) ==
    [kind |-> "aliased", text |-> "stats " \o StatsArgs(aggs, sep, as, by), alts |-> aggs,
     outer |-> FALSE, inner |-> FALSE, kw |-> StatsArgs(aggs, sep, as, by), arg |-> by]

AliasQueries ==
    { Aliased(<<<<"sum", "age", "total">>>>, " ", " as ", ""),
      Aliased(<<<<"count", "", "n">>>>, " ", " as ", "city"),
      Aliased(<<<<"count", "", "n">>, <<"avg", "age", "mean_age">>>>, ", ", " as ", "city"),
      Aliased(<<<<"count", "", "n">>, <<"sum", "age", "total">>>>, " ", "  AS  ", "user"),
      Aliased(<<<<"dc", "city", "cities">>, <<"count", "", "">>>>, ", ", " As ", "status"),
      Aliased(<<<<"count", "user", "">>, <<"max", "count", "top">>>>, " ", " as ", "") }

\* `stats <aggregation> [by <field>]` without an alias
Stats(agg, by) ==
    [kind |-> "stats", text |-> "stats " \o StatsArgs(<<agg>>, "", "", by), alts |-> <<agg>>,
     outer |-> FALSE, inner |-> FALSE, kw |-> StatsArgs(<<agg>>, "", "", by), arg |-> by]

StatsQueries ==
    { Stats(<<"min", "age", "">>, "user"),
      Stats(<<"max", "age", "">>, ""),
      Stats(<<"sum", "age", "">>, "status"),
      Stats(<<"dc", "user", "">>, "city") }

\* one segment `<word> <rest>`: kw is the command kind the word stands for
Segment(word, kind, rest) ==
    [kind |-> "segment", text |-> word \o " " \o rest, alts |-> <<>>,
     outer |-> FALSE, inner |-> FALSE, kw |-> kind, arg |-> rest]

Segments ==
    { Segment("SEARCH", "Search", "city=\"NYC\""),
      Segment("Where", "Search", "age>26"),
      Segment("STATS", "Stats", "count by city"),
      Segment("EventStats", "Eventstats", "count by city"),
      Segment("Fields", "Fields", "user, age"),
      Segment("tABLE", "Table", "user, age"),
      Segment("RENAME", "Rename", "user as name"),
      Segment("Eval", "Eval", "total = age + 1"),
      Segment("SORT", "Sort", "-age"),
      Segment("Head", "Head", "1"),
      Segment("TAIL", "Tail", "1") }

\* `eval <field> = <x> <op> <y>`: kw is the target field, arg the expression
Eval(field, expression) ==
    [kind |-> "eval", text |-> "eval " \o field \o " = " \o expression, alts |-> <<>>,
     outer |-> FALSE, inner |-> FALSE, kw |-> field, arg |-> expression]

Evals == {Eval("total", "age + 1"), Eval("ratio", "age / 0"), Eval("age", "count * 2")}

\* `<P> <field>=[search <S> | fields <field>] | stats count`: alts holds the
\* primitive P, kw the condition S of the subsearch, arg the field
Prefixed(P, field, S) ==
    [kind |-> "prefixed",
     text |-> P \o " " \o field \o "=[search " \o S \o " | fields " \o field \o "] | stats count",
     alts |-> <<<<P>>>>, outer |-> FALSE, inner |-> FALSE, kw |-> S, arg |-> field]

PrefixedSubsearches ==
    { Prefixed("city=\"NYC\"", "user", "status=\"active\""),
      Prefixed("age>26", "user", "city=\"NYC\"") }

Queries ==
    Conditions \cup CountBys \cup Pipelines \cup AliasQueries \cup StatsQueries \cup Segments
        \cup Evals \cup PrefixedSubsearches

NoQuery == Query("none", "")

-----------------------------------------------------------------------------
(* The state machine: SPL(data), then any number of SPL.search(query).     *)

\* no function has been called directly; the call has not returned
NoCall == [fn |-> "", args |-> <<>>]
NotReturned == [returned |-> FALSE, value |-> <<>>]

Init ==
    /\ \E input \in ConstructorInputs : data = SPL_init(input)
    /\ pc = "idle"
    /\ query = ""
    /\ form = NoQuery
    /\ commands = <<>>
    /\ ci = 1
    /\ result = <<>>
    /\ src = <<>>
    /\ aliased = FALSE
    /\ call = NoCall
    /\ ret = NotReturned

\* SPL.search(query) up to the for loop: the query is parsed and `result`
\* is bound to self.data
Search(q) ==
    /\ pc \in {"idle", "done", "raised"}
    /\ query' = q.text
    /\ form' = q
    /\ commands' = parse(Chars(q.text))
    /\ ci' = 1
    /\ result' = data
    /\ src' = Positions(data)
    /\ aliased' = TRUE
    /\ pc' = "run"
    /\ UNCHANGED <<data, call, ret>>

\* self.data after a stage has run on `result` and left its input as inp:
\* the list itself when `result` is self.data, else the records of
\* self.data that `result` holds
DataAfter(inp) ==
    IF aliased THEN inp
    ELSE [i \in DOMAIN data |->
            IF \E j \in DOMAIN src : src[j] = i
            THEN inp[CHOOSE j \in DOMAIN src : src[j] = i]
            ELSE data[i]]

\* one iteration of the for loop: result = self._execute_command(result, command)
Stepped(r) ==
    /\ data' = DataAfter(r.inp)
    /\ IF r.raised
       THEN /\ pc' = "raised"
            /\ result' = <<>>
            /\ src' = <<>>
            /\ aliased' = FALSE
       ELSE /\ pc' = "run"
            /\ result' = r.out
            /\ src' = [k \in DOMAIN r.from |-> IF r.from[k] = 0 THEN 0 ELSE src[r.from[k]]]
            /\ aliased' = (aliased /\ r.same)
Step ==
    /\ pc = "run"
    /\ ci <= Len(commands)
    /\ Stepped(execute_command(result, commands[ci]))
    /\ ci' = ci + 1
    /\ UNCHANGED <<query, form, commands, call, ret>>

\* return result
Return ==
    /\ pc = "run"
    /\ ci > Len(commands)
    /\ pc' = "done"
    /\ UNCHANGED <<data, query, form, commands, ci, result, src, aliased, call, ret>>

Next == (\E q \in Queries : Search(q)) \/ Step \/ Return

Spec == Init /\ [][Next]_vars

-----------------------------------------------------------------------------
(* Direct calls of the functions of parser.py and utils.py *)

\* the texts given to the pipe splitter
PipeTexts ==
    { "", "|", "a|b", "a || b |",
      "search x=\"a|b\" | head 1",
      "a 'x|y' | b",
      "eval s=\"it's\" | head 1",
      "x=\"a\\\"b|c\" | d",
      "'(' | a",
      "(a | b) | c",
      "a ( b | c",
      "a) | b",
      "f(x)) | g | h" }

\* the conditions given to parse_multiple_conditions
ConditionTexts ==
    { "", "city=New York",
      "city=New York status=active",
      "status=active city=New York",
      "name=\"John Smith\" age>30",
      "msg='a b' x=1 y<=2",
      "user=alice  age!=30",
      "a=1 b c d=2",
      "hello world a=1 b=2",
      "a=1 b=2 tail end" }

\* the records and the primitives `<field><op><token>` given to
\* evaluate_condition: fields that are absent (team), null (note), numbers
\* and texts; tokens that are literals, quoted or not, and names of fields
E1 == <<<<"user", PyText("alice")>>, <<"age", PyInt(30)>>, <<"limit", PyInt(25)>>,
        <<"city", PyText("NYC")>>, <<"note", None>>>>
E2 == <<<<"user", PyText("age")>>, <<"age", PyInt(25)>>, <<"limit", PyInt(25)>>,
        <<"city", PyText("user")>>, <<"25", PyInt(30)>>>>
E3 == <<<<"user", PyText("bob")>>, <<"age", PyText("35")>>, <<"limit", PyInt(40)>>,
        <<"note", PyText("limit")>>>>
E4 == <<>>
Records == {E1, E2, E3, E4}

Primitive(field, op, token, pad) ==
    [field |-> field, op |-> op, token |-> token,
     text |-> field \o pad \o op \o pad \o token]
Primitives ==
    { Primitive(field, op, token, pad) :
        field \in {"user", "age", "city", "note", "team"},
        op \in {"=", "!=", ">", ">=", "<", "<="},
        token \in {"*", "30", "25", "\"alice\"", "limit", "\"limit\"", "'user'", "user", "age", "note"},
        pad \in {"", " "} }

\* the arguments of a stats or eventstats command: text is what the command
\* is given, aggs holds one <<func, field, alias>> per aggregation and by the
\* group-by fields
Aggregation(aggs, sep, by) ==
    [aggs |-> aggs, by |-> by,
     text |-> StatsArgs(aggs, sep, " as ", ToStr(join(Chars(", "), [k \in DOMAIN by |-> Chars(by[k])])))]
Aggregations ==
    { Aggregation(<<<<"count", "", "">>>>, "", <<>>),
      Aggregation(<<<<"count", "", "">>>>, "", <<"city">>),
      Aggregation(<<<<"sum", "age", "">>>>, "", <<"status">>),
      Aggregation(<<<<"avg", "age", "">>>>, "", <<"user">>),
      Aggregation(<<<<"min", "age", "">>>>, "", <<"user">>),
      Aggregation(<<<<"min", "count", "">>, <<"max", "age", "">>>>, ", ", <<"city">>),
      Aggregation(<<<<"dc", "city", "cities">>>>, "", <<"status", "user">>),
      Aggregation(<<<<"count", "", "n">>, <<"sum", "age", "total">>>>, " ", <<"city">>),
      Aggregation(<<<<"count", "user", "">>, <<"mean", "count", "">>>>, " ", <<>>) }

\* the aggregation part of a command: aggs holds one <<func, field, alias>>
\* per aggregation and seps the text between each two of them; spaced is the
\* same list with one space between the aggregations
RECURSIVE Interleaved(_, _)
Interleaved(texts, seps) ==
    IF Len(texts) <= 1 THEN (IF texts = <<>> THEN "" ELSE texts[1])
    ELSE texts[1] \o seps[1] \o Interleaved(Tail(texts), Tail(seps))
AggList(aggs, seps) ==
    [aggs |-> aggs,
     text |-> Interleaved([k \in DOMAIN aggs |-> AggText(aggs[k], " as ")], seps),
     spaced |-> Interleaved([k \in DOMAIN aggs |-> AggText(aggs[k], " as ")],
                            [k \in DOMAIN seps |-> " "])]
AggLists ==
    { AggList(<<<<"count", "", "">>>>, <<>>),
      AggList(<<<<"count", "", "">>, <<"sum", "age", "">>, <<"avg", "age", "">>>>, <<", ", ", ">>),
      AggList(<<<<"dc", "city", "">>, <<"count", "user", "">>>>, <<",">>),
      AggList(<<<<"min", "age", "">>, <<"max", "age", "">>, <<"count", "", "">>>>, <<" , ", ",">>),
      AggList(<<<<"count", "", "">>, <<"sum", "", "">>>>, <<", ">>),
      AggList(<<<<"dc", "", "">>, <<"mean", "age", "">>>>, <<", ">>),
      AggList(<<<<"count", "", "n">>, <<"sum", "age", "total">>>>, <<", ">>),
      AggList(<<<<"count", "", "n">>, <<"sum", "age", "total">>, <<"avg", "age", "">>>>, <<" ", ", ">>),
      AggList(<<<<"max", "age", "">>, <<"count", "", "">>, <<"dc", "city", "cities">>>>, <<", ", " ">>) }

\* the queries given to the parser, each as the sequence of its segments
SegmentLists ==
    { <<"foo bar">>, <<"  user=\"alice\"  ">>, <<"count>5">>, <<"* ">>, <<"(a=1 OR b=2)">>,
      <<"Searching now">>, <<"=3">>,
      <<"stats count", " foo bar ">>,
      <<"statsx count ", "head 1">>,
      <<"head 2", "lookup users ", "WHERE age>1">>,
      <<"\"x\" y", "sort -age", "fieldsof a">> }

\* the queries subsearches are extracted from: no, one and several spans,
\* nested brackets, brackets that are not closed or not opened
BracketTexts ==
    { "", "a [b] c", "[a][b]", "[a [b] c] d [e]", "] [a]", "][[x]", "[a", "a] b [c] [",
      "[[a]] [] x=[b|c]", "[a]]b[c]", "[a [b [c]] d] [e] f",
      "user=[search status=\"active\" | fields user] | stats count" }

\* the queries whose subsearches are resolved: no span, one span with and
\* without a `field=` in front, a blank after the `=`, two spans set apart
\* by blanks, two spans with no blank between them
SubsearchQueries ==
    { "user=\"alice\"",
      "user=[search status=\"active\" | fields user] | stats count",
      "[search age=25 | fields user, city] | fields user",
      "user= [search age=25 | fields user] | head 1",
      "[search user=\"zed\"] | stats count",
      "city=[search user=\"bob\" | fields city] user=[search age>26 | fields user]",
      "status=\"active\" [search city=\"NYC\" | fields user] [head 1 | fields age]",
      "(user=[search age=25 | fields user])OR(city=[search age=30 | fields city])" }

\* the records subsearches return: one field, several fields, null values,
\* no field; and the lists of at most n of them
ResultPool ==
    { <<<<"user", PyText("alice")>>>>, <<<<"user", PyText("bob")>>>>, <<<<"user", None>>>>,
      <<<<"age", PyInt(30)>>>>, <<>>,
      <<<<"user", PyText("alice")>>, <<"age", PyInt(30)>>>>,
      <<<<"user", PyText("bob")>>, <<"age", None>>>>,
      <<<<"user", None>>, <<"age", None>>>>,
      <<<<"ok", PyBool(TRUE)>>, <<"avg", PyFloat(65, 2)>>, <<"city", PyText("LA")>>>> }
RECURSIVE ResultLists(_)
ResultLists(n) ==
    IF n = 0 THEN {<<>>}
    ELSE ResultLists(n - 1)
         \cup {Append(l, r) : l \in {m \in ResultLists(n - 1) : Len(m) = n - 1}, r \in ResultPool}

\* the datasets a search for a synthesized condition runs on: the lists of
\* the pool, and records with a field called nonsearchfield
T1 == <<<<"nonsearchfield", PyText("impossiblevalue")>>>>
T2 == <<<<"nonsearchfield", PyInt(5)>>, <<"impossiblevalue", PyInt(5)>>>>
T3 == <<<<"nonsearchfield", PyText("other")>>, <<"user", PyText("alice")>>>>
SearchedData == ListsUpTo(MaxRecs) \cup {<<T1>>, <<R1, T2>>, <<T3, R2>>}
\* subsearch results without a usable field
NoFieldResults ==
    { <<>>, << <<>> >>, << <<>>, <<<<"user", PyText("alice")>>>> >>,
      << <<<<"user", None>>>> >>, << <<<<"user", None>>, <<"age", None>>>> >> }

\* the numeric aggregation functions of the model
NumericAggregations == {"agg_sum", "agg_avg", "agg_min", "agg_max"}

\* a call of fn with args, and the calls of the model
Call(fn, args) == [fn |-> fn, args |-> args]
PipeCalls == {Call("_split_by_pipe", <<q>>) : q \in PipeTexts}
ConditionCalls == {Call("parse_multiple_conditions", <<c>>) : c \in ConditionTexts}
PrimitiveCalls ==
    {Call("evaluate_condition", <<record, p>>) : record \in Records, p \in Primitives}
EventstatsCalls ==
    {Call("execute_eventstats", <<d, a>>) : d \in ListsUpTo(MaxRecs), a \in Aggregations}
AggregateCalls ==
    {Call(f, <<d, field>>) : f \in NumericAggregations, d \in ListsUpTo(MaxRecs),
                             field \in {"age", "count", "user"}}
QueryCalls == {Call("parse", <<segments>>) : segments \in SegmentLists}
ExtractCalls == {Call("extract_subsearches", <<q>>) : q \in BracketTexts}
ProcessCalls ==
    {Call("process_subsearches", <<q, d>>) : q \in SubsearchQueries, d \in ListsUpTo(MaxRecs)}
FormatCalls ==
    {Call("format_subsearch_results", <<results>>) : results \in ResultLists(MaxResults)}
SearchCalls ==
    {Call("execute_search", <<d, results>>) : d \in SearchedData, results \in NoFieldResults}
ParseCalls == {Call("parse_aggregations", <<l.text, l.spaced, l.aggs>>) : l \in AggLists}

\* the function called returns value
Returns_value(fn, value) ==
    /\ call.fn = fn
    /\ ~ret.returned
    /\ ret' = [returned |-> TRUE, value |-> value]
    /\ UNCHANGED <<data, pc, query, form, commands, ci, result, src, aliased, call>>

\* SPLParser(q)._split_by_pipe(q)
SplitByPipe ==
    Returns_value("_split_by_pipe",
                  [k \in DOMAIN split_by_pipe(Chars(call.args[1])) |->
                        ToStr(split_by_pipe(Chars(call.args[1]))[k])])

\* parse_multiple_conditions(c)
ParseMultipleConditions ==
    Returns_value("parse_multiple_conditions",
                  [k \in DOMAIN parse_multiple_conditions(Chars(call.args[1])) |->
                        ToStr(parse_multiple_conditions(Chars(call.args[1]))[k])])

\* evaluate_condition(record, p.text)
EvaluateCondition ==
    Returns_value("evaluate_condition",
                  evaluate_condition(call.args[1], Chars(call.args[2].text)))

\* execute_eventstats(d, a.text)
ExecuteEventstats ==
    Returns_value("execute_eventstats", execute_eventstats(call.args[1], Chars(call.args[2].text)))

\* agg_sum(d, field), agg_avg, agg_min, agg_max: what the call returns, or
\* that it raised
AggregateField ==
    /\ call.fn \in NumericAggregations
    /\ Returns_value(call.fn, Aggregate(call.fn, call.args[1], <<call.args[2]>>))

\* parse_aggregations(text)
ParseAggregations ==
    Returns_value("parse_aggregations", parse_aggregations(Chars(call.args[1])))

\* SPLParser(query).parse(), the query being the segments joined by pipes
Parse ==
    Returns_value("parse",
                  parse(join(<<"|">>, [k \in DOMAIN call.args[1] |-> Chars(call.args[1][k])])))

ExtractSubsearches ==
    Returns_value("extract_subsearches", extract_subsearches(Chars(call.args[1])))

\* process_subsearches(query, data, SPL(data))
ProcessSubsearches ==
    Returns_value("process_subsearches",
                  process_subsearches(Chars(call.args[1]), call.args[2]))

FormatSubsearchResults ==
    Returns_value("format_subsearch_results",
                  ToStr(format_subsearch_results(call.args[1])))

\* execute_search(data, condition), the condition being the one
\* format_subsearch_results gives for the results of a subsearch
SearchSynthesized ==
    Returns_value("execute_search",
                  execute_search(call.args[1], format_subsearch_results(call.args[2])).out)

\* a function is called on an engine that holds no data
CallInit ==
    /\ data = SPL_init([isdict |-> FALSE, value |-> <<>>])
    /\ pc = "idle"
    /\ query = ""
    /\ form = NoQuery
    /\ commands = <<>>
    /\ ci = 1
    /\ result = <<>>
    /\ src = <<>>
    /\ aliased = FALSE
    /\ \/ call \in PipeCalls
       \/ call \in ConditionCalls
       \/ call \in PrimitiveCalls
       \/ call \in EventstatsCalls
       \/ call \in AggregateCalls
       \/ call \in ParseCalls
       \/ call \in QueryCalls
       \/ call \in ExtractCalls
       \/ call \in ProcessCalls
       \/ call \in FormatCalls
       \/ call \in SearchCalls
    /\ ret = NotReturned
CallNext ==
    \/ SplitByPipe
    \/ ParseMultipleConditions
    \/ EvaluateCondition
    \/ ExecuteEventstats
    \/ AggregateField
    \/ ParseAggregations
    \/ Parse
    \/ ExtractSubsearches
    \/ ProcessSubsearches
    \/ FormatSubsearchResults
    \/ SearchSynthesized
CallSpec == CallInit /\ [][CallNext]_vars

-----------------------------------------------------------------------------
(* The properties.  They are stated on the state a call of SPL.search is   *)
(* in when it returns (pc = "done"), against the structure the query was   *)
(* written from (form) and the dataset the engine holds (data).            *)

\* the record satisfies the condition of structure alts: every primitive of
\* at least one alternative holds of it
Satisfies(record, alts) ==
    \E a \in DOMAIN alts :
        \A k \in DOMAIN alts[a] : evaluate_condition(record, Chars(alts[a][k]))

\* `result` holds records of the dataset, in the order of the dataset
InDataOrder ==
    /\ \A k \in DOMAIN src : src[k] \in DOMAIN data /\ result[k] = data[src[k]]
    /\ \A k \in DOMAIN src : k > 1 => src[k - 1] < src[k]

\* C1: a condition returns records of the input in their input order, and
\* every returned record satisfies the condition: all the primitives of an
\* AND, at least one alternative of an OR.
C1_ReturnedRecordsSatisfy ==
    (pc = "done" /\ form.kind = "cond") =>
        /\ InDataOrder
        /\ \A k \in DOMAIN result : Satisfies(result[k], form.alts)

\* C2: the query `*` returns every record of the dataset, in the original
\* order and with the fields it has in the dataset.
C2_StarReturnsAll ==
    (pc = "done" /\ form.kind = "star") => (result = data /\ src = Positions(data))
C2_Witness ==
    /\ pc = "done" /\ form.kind = "star"
    /\ Len(data) >= 2 /\ data[1] # data[2]

CountRecord(n) == <<<<"count", PyInt(n)>>>>

\* C3 as the specification has it: `stats count` on a dataset of N records
\* returns exactly one record, {count: N}, whatever N is.
C3_CountOfAnySize ==
    (pc = "done" /\ form.kind = "statscount") => result = <<CountRecord(Len(data))>>
\* C3: `stats count` on a dataset of N >= 1 records returns exactly one
\* record, {count: N}; on the empty dataset it returns no record.
C3_CountOfNonEmpty ==
    (pc = "done" /\ form.kind = "statscount") =>
        IF data = <<>> THEN result = <<>> ELSE result = <<CountRecord(Len(data))>>
C3_Witness ==
    pc = "done" /\ form.kind = "statscount" /\ Len(data) >= 2 /\ Len(result) = 1

RECURSIVE SumOfCounts(_)
SumOfCounts(records) ==
    IF records = <<>> THEN 0
    ELSE get(Head(records), "count").n + SumOfCounts(Tail(records))

\* C4: `stats count by <field>` partitions the dataset: the counts of the
\* result records add up to the number of input records, and every input
\* record belongs to exactly one result record, the one that holds its value
\* of the field, null when the record lacks the field.  (When the field is
\* itself called count its value in the result is the count, so the groups
\* are told apart by the sum only.)
C4_CountByPartitions ==
    (pc = "done" /\ form.kind = "countby") =>
        /\ SumOfCounts(result) = Len(data)
        /\ form.arg # "count" =>
            \A i \in DOMAIN data :
                /\ Cardinality({g \in DOMAIN result :
                        PyEq(get(result[g], form.arg), get(data[i], form.arg))}) = 1
                /\ \A g \in DOMAIN result :
                        PyEq(get(result[g], form.arg), get(data[i], form.arg)) =>
                            get(result[g], "count") =
                                PyInt(Cardinality({j \in DOMAIN data :
                                        PyEq(get(data[j], form.arg), get(data[i], form.arg))}))
C4_Witness ==
    /\ pc = "done" /\ form.kind = "countby"
    /\ \E i, j \in DOMAIN data : ~has(data[i], form.arg) /\ has(data[j], form.arg)
    /\ Len(result) = 2
    /\ \E g \in DOMAIN result : get(result[g], form.arg) = None

\* C5: eventstats returns as many records as it is given, in the original
\* order, the i-th holding every field of the i-th input record with its
\* value (and the aggregates besides).
C5_EventstatsKeepsRecords ==
    (pc = "done" /\ form.kind = "eventstats") =>
        /\ Len(result) = Len(data)
        /\ \A i \in DOMAIN result :
            /\ Len(result[i]) > Len(data[i])
            /\ \A f \in DOMAIN data[i] :
                    /\ has(result[i], data[i][f][1])
                    /\ get(result[i], data[i][f][1]) = data[i][f][2]

\* the users of the records whose status is "active", and the records of
\* these users
ActiveUsers ==
    {get(data[i], "user") : i \in {j \in DOMAIN data : get(data[j], "status") = PyText("active")}}
EventsOfActiveUsers == {i \in DOMAIN data : get(data[i], "user") \in ActiveUsers}

\* C6: `[search status="active" | fields user] | stats count` returns one
\* record whose count is the number of records whose user is one of the
\* active users (stated where there is an active user).
C6_SubsearchCountsActiveUsers ==
    (pc = "done" /\ form.kind = "subsearch" /\ ActiveUsers # {}) =>
        result = <<CountRecord(Cardinality(EventsOfActiveUsers))>>

\* C7: SPL.search raises no exception, whatever the dataset and the query.
C7_NeverRaises == pc # "raised"

\* C8: no step of a call changes the dataset the engine holds, and no stage
\* writes to the list or to a record it is given.
C8_DatasetUnchanged ==
    [][/\ data' = data
       /\ (pc = "run" /\ ci <= Len(commands)) =>
            execute_command(result, commands[ci]).inp = result]_vars
\* a call has returned records that an eval stage built with a new field
C8_Witness ==
    /\ pc = "done" /\ data # <<>> /\ result # <<>>
    /\ \E k \in DOMAIN commands : commands[k].kind = "Eval"
    /\ \E i \in DOMAIN result : has(result[i], "total")
    /\ \A j \in DOMAIN data : ~has(data[j], "total")

\* C9: the parsed pipeline is empty or begins with a Search command: when
\* the first command parsed from the query is no Search, a Search `*` is
\* put in front of the parsed commands, which keep their order.
C9_PipelineStartsWithSearch ==
    (pc # "idle") =>
        LET parsed == ParseParts(split_by_pipe(strip(Chars(query))))
        IN /\ commands = <<>> \/ commands[1].kind = "Search"
           /\ IF parsed # <<>> /\ parsed[1].kind # "Search"
              THEN commands = <<[kind |-> "Search", args |-> "*"]>> \o parsed
              ELSE commands = parsed
C9_Witness ==
    /\ pc = "run" /\ Len(commands) = 4
    /\ commands[1] = [kind |-> "Search", args |-> "*"]
    /\ <<commands[2].kind, commands[3].kind, commands[4].kind>> = <<"Stats", "Sort", "Head">>

\* C10: an OR condition returns exactly the records of the dataset for
\* which at least one alternative is true, in input order, each once.
C10_OrReturnsExactly ==
    (pc = "done" /\ form.kind = "cond" /\ Len(form.alts) >= 2) =>
        /\ src = Ascending({i \in DOMAIN data : Satisfies(data[i], form.alts)})
        /\ result = Sub(data, src)

\* the records of the dataset in the group of a result record: all of them
\* without a group-by field, else those with the record's value of the field
GroupRecords(d, by, record) ==
    SelectSeq(d, LAMBDA r : by = "" \/ PyEq(get(r, by), get(record, by)))

\* the aggregation a is under its alias in the record, with the value of the
\* aggregate over the group
AliasCarried(record, group, a) ==
    /\ has(record, a[3])
    /\ get(record, a[3]) = Aggregate(get_aggregation_function[a[1]], group,
                                     IF a[2] = "" THEN <<>> ELSE <<a[2]>>).v

\* the default name of the aggregation a is the name of another aggregation
\* of the command or its group-by field
NameTaken(aggs, by, a) ==
    \/ AggDefaultName(a) = by
    \/ \E k \in DOMAIN aggs :
            AggDefaultName(a) = (IF aggs[k][3] = "" THEN AggDefaultName(aggs[k]) ELSE aggs[k][3])

\* the result r of eventstats on the dataset holds one record per record of
\* the dataset, each with the aliased aggregations of the form
EventstatsCarries(r) ==
    /\ ~r.raised
    /\ Len(r.out) = Len(data)
    /\ \A i \in DOMAIN r.out : \A k \in DOMAIN form.alts :
            form.alts[k][3] # "" =>
                /\ AliasCarried(r.out[i], GroupRecords(data, form.arg, data[i]), form.alts[k])
                /\ has(r.out[i], AggDefaultName(form.alts[k]))
                        => \/ has(data[i], AggDefaultName(form.alts[k]))
                           \/ NameTaken(form.alts, form.arg, form.alts[k])

\* C11: an aggregation written with `as <alias>` is in every output record
\* under the alias and not under its default name func(field) or func.  Stats
\* is run by SPL.search; execute_eventstats is applied to the dataset with
\* the same arguments, where a default name is a field of the output only
\* when the input record has that field.
C11_AliasReplacesDefaultName ==
    (pc = "done" /\ form.kind = "aliased") =>
        /\ data # <<>> => result # <<>>
        /\ \A i \in DOMAIN result : \A k \in DOMAIN form.alts :
                form.alts[k][3] # "" =>
                    /\ AliasCarried(result[i], GroupRecords(data, form.arg, result[i]), form.alts[k])
                    /\ has(result[i], AggDefaultName(form.alts[k]))
                            => NameTaken(form.alts, form.arg, form.alts[k])
        /\ EventstatsCarries(execute_eventstats(data, Chars(form.kw)))
C11_Witness ==
    /\ pc = "done" /\ form.kind = "aliased" /\ Len(form.alts) = 2 /\ Len(result) = 2
    /\ has(result[1], "n") /\ has(result[1], "mean_age") /\ ~has(result[1], "avg(age)")

\* the positions in the dataset of the first record of each group, in input
\* order: one group for all the records without a group-by field
FirstOfGroups(d, by) ==
    SelectSeq(Positions(d),
              LAMBDA i : \A j \in 1..(i - 1) : by # "" /\ ~PyEq(get(d[j], by), get(d[i], by)))

StatsKinds == {"stats", "statscount", "countby", "aliased"}

\* C12: a stats command returns one record per distinct value of the
\* group-by field, in the order in which the values first occur in the
\* dataset; without a group-by field it returns one record for a non-empty
\* dataset; for the empty dataset it returns no record.  (Grouped by a field
\* called count, the count takes the place of the field's value in the record.)
C12_StatsOneRecordPerGroup ==
    (pc \in {"done", "raised"} /\ form.kind \in StatsKinds) =>
        /\ pc = "done"
        /\ Len(result) = Len(FirstOfGroups(data, form.arg))
        /\ \A g \in DOMAIN result :
                has(result[g], form.arg) =>
                    \/ PyEq(get(result[g], form.arg), get(data[FirstOfGroups(data, form.arg)[g]], form.arg))
                    \/ form.arg = "count"

\* the same for the stats commands that return
C12_ReturnedOneRecordPerGroup == pc = "raised" \/ C12_StatsOneRecordPerGroup

\* C13: the last command parsed from a one-segment query has the kind its
\* leading word stands for, whatever the case of the word, and the rest of
\* the segment as its argument; the query returns what the stage of that
\* kind returns for the dataset, eventstats included.
C13_LeadingWordGivesKind ==
    (pc \in {"run", "done"} /\ form.kind = "segment") =>
        /\ commands # <<>>
        /\ commands[Len(commands)] = [kind |-> form.kw, args |-> form.arg]
        /\ pc = "done" => result = execute_command(data, [kind |-> form.kw, args |-> form.arg]).out

\* what Python gives for the arithmetic expression on the record: <<value>>,
\* or <<>> when evaluating it fails
Arithmetic(expression, record) == EvalSafe(Chars(expression), record)

\* C14: an eval stage returns one record per record of the dataset, in
\* order: the record with the target field set to the value of the
\* expression, or to null where evaluating the expression fails for the
\* record (division by zero, a missing field, a text operand).
C14_EvalFailureGivesNull ==
    (pc = "done" /\ form.kind = "eval") =>
        /\ Len(result) = Len(data)
        /\ \A i \in DOMAIN result :
                result[i] = put(data[i], form.kw,
                                IF Arithmetic(form.arg, data[i]) = <<>> THEN None
                                ELSE Arithmetic(form.arg, data[i])[1])

\* the same, a failed evaluation giving the text of the expression
C14_EvalFailureGivesText ==
    (pc = "done" /\ form.kind = "eval") =>
        /\ Len(result) = Len(data)
        /\ \A i \in DOMAIN result :
                result[i] = put(data[i], form.kw,
                                IF Arithmetic(form.arg, data[i]) = <<>> THEN PyText(form.arg)
                                ELSE Arithmetic(form.arg, data[i])[1])

\* the non-null values of the field in the records of the dataset that
\* satisfy the condition of the subsearch
SubsearchValues ==
    {get(data[i], form.arg) :
        i \in {j \in DOMAIN data : /\ evaluate_condition(data[j], Chars(form.kw))
                                   /\ get(data[j], form.arg) # None}}
\* the records that satisfy P and hold one of these values in the field
PrefixedMatches ==
    {i \in DOMAIN data : /\ Satisfies(data[i], form.alts)
                         /\ \E v \in SubsearchValues : PyEq(get(data[i], form.arg), v)}

\* C15: `P field=[search S | fields field] | stats count` counts the records
\* that satisfy P and whose value of the field is a value of the field in a
\* record satisfying S: one record holding their number where there is such
\* a record, else no record or a count of 0.
C15_PrefixedSubsearchFilters ==
    (pc = "done" /\ form.kind = "prefixed") =>
        IF PrefixedMatches = {} THEN result \in {<<>>, <<CountRecord(0)>>}
        ELSE result = <<CountRecord(Cardinality(PrefixedMatches))>>

\* the quote character that is open where position i of the text is read,
\* "" for none: a quote not preceded by a backslash opens a quoted string
\* and the same character closes it
RECURSIVE OpenQuote(_, _)
OpenQuote(q, i) ==
    IF i = 1 THEN ""
    ELSE LET open == OpenQuote(q, i - 1)
             char == q[i - 1]
         IN IF char \in {"\"", "'"} /\ (i = 2 \/ q[i - 2] # "\\")
            THEN (IF open = "" THEN char ELSE IF char = open THEN "" ELSE open)
            ELSE open

\* the number of parentheses opened outside quoted strings before position
\* i and not closed yet; a closing parenthesis that matches none closes none
RECURSIVE OpenParens(_, _)
OpenParens(q, i) ==
    IF i = 1 THEN 0
    ELSE LET depth == OpenParens(q, i - 1)
         IN IF OpenQuote(q, i - 1) # "" \/ OpenQuote(q, i) # "" THEN depth
            ELSE IF q[i - 1] = "(" THEN depth + 1
            ELSE IF q[i - 1] = ")" /\ depth > 0 THEN depth - 1
            ELSE depth

\* the pipes outside quoted strings and unmatched parentheses, in order
Separators(q) ==
    SelectSeq(Positions(q),
              LAMBDA i : q[i] = "|" /\ OpenQuote(q, i) = "" /\ OpenParens(q, i) = 0)

\* the text cut at the positions seps, without a last segment that is empty
SegmentsAt(q, seps) ==
    LET all == [k \in 1..(Len(seps) + 1) |->
                    ToStr(SubSeq(q, IF k = 1 THEN 1 ELSE seps[k - 1] + 1,
                                    IF k > Len(seps) THEN Len(q) ELSE seps[k] - 1))]
    IN IF all[Len(all)] = "" THEN SubSeq(all, 1, Len(all) - 1) ELSE all

\* C16: the pipe splitter cuts the query at the pipes that are outside quoted
\* strings and outside unmatched parentheses, and at no other place: the
\* segments are the texts between these pipes, unchanged and in order (a last
\* segment that is empty is left out).
C16_SplitsAtTopLevelPipes ==
    (call.fn = "_split_by_pipe" /\ ret.returned) =>
        ret.value = SegmentsAt(Chars(call.args[1]), Separators(Chars(call.args[1])))

\* C17: where a condition with OR has an alternative of several primitives,
\* a record of the dataset is returned if and only if all the primitives of
\* one of the alternatives hold for it.
C17_AlternativePrimitivesAnded ==
    (/\ pc = "done" /\ form.kind = "cond" /\ Len(form.alts) >= 2
     /\ \E a \in DOMAIN form.alts : Len(form.alts[a]) >= 2) =>
        \A i \in DOMAIN data :
            (\E k \in DOMAIN src : src[k] = i) <=>
                \E a \in DOMAIN form.alts :
                    \A k \in DOMAIN form.alts[a] :
                        evaluate_condition(data[i], Chars(form.alts[a][k]))

\* the tokens of the condition: the non-empty texts between the spaces that
\* are outside quoted strings
Tokens(s) ==
    SelectSeq(SegmentsAt(s, SelectSeq(Positions(s),
                                      LAMBDA i : s[i] = " " /\ OpenQuote(s, i) = "")),
              LAMBDA t : t # "")

HasComparison(t) == \E i \in DOMAIN Chars(t) : Chars(t)[i] \in {"=", "<", ">"}

\* the tokens without a comparison operator joined to the token before them
RECURSIVE Rejoined(_, _)
Rejoined(tokens, primitives) ==
    IF tokens = <<>> THEN primitives
    ELSE Rejoined(Tail(tokens),
                  IF HasComparison(Head(tokens)) \/ primitives = <<>>
                  THEN Append(primitives, Head(tokens))
                  ELSE [primitives EXCEPT ![Len(primitives)] = @ \o " " \o Head(tokens)])

\* C18: parse_multiple_conditions cuts the condition at the spaces outside
\* quoted strings and joins every token without a comparison operator, with
\* a space, to the token before it, wherever the token is in the condition.
C18_OperatorlessTokensRejoined ==
    (call.fn = "parse_multiple_conditions" /\ ret.returned) =>
        ret.value = Rejoined(Tokens(Chars(call.args[1])), <<>>)

\* the record and the primitive of a call of evaluate_condition
CallRecord == call.args[1]
CallPrimitive == call.args[2]

\* C19: on a record whose field is absent or null, `field!=*` is true and
\* every other primitive on the field is false, `field=*` included; on a
\* record whose field is present and not null, `field=*` is true and
\* `field!=*` is false.
C19_AbsentFieldMatchesOnlyNotWildcard ==
    (call.fn = "evaluate_condition" /\ ret.returned) =>
        IF get(CallRecord, CallPrimitive.field) = None
        THEN ret.value = (CallPrimitive.op = "!=" /\ CallPrimitive.token = "*")
        ELSE (CallPrimitive.token = "*" /\ CallPrimitive.op \in {"=", "!="})
                => ret.value = (CallPrimitive.op = "=")
C19_Witness ==
    /\ call.fn = "evaluate_condition" /\ ret.returned /\ ret.value = TRUE
    /\ has(CallRecord, "note") /\ get(CallRecord, "note") = None
    /\ CallPrimitive.field = "note" /\ CallPrimitive.op = "!=" /\ CallPrimitive.token = "*"

\* the token of the primitive is quoted; the text between its quotes
QuotedToken == Chars(CallPrimitive.token)[1] \in {"\"", "'"}
Unquoted(token) == ToStr(SubSeq(Chars(token), 2, Len(Chars(token)) - 1))

\* C20: on a record whose field is not null, a primitive whose token is
\* unquoted and is the name of a field of the record compares the field with
\* the value of that field, whatever the operator, also when the token reads
\* as a number; a primitive whose token is quoted compares the field with the
\* text between the quotes, also when that text is the name of a field.
C20_TokenNamingFieldIsResolved ==
    (/\ call.fn = "evaluate_condition" /\ ret.returned
     /\ get(CallRecord, CallPrimitive.field) # None) =>
        IF QuotedToken
        THEN ret.value = Compare(Chars(CallPrimitive.op), get(CallRecord, CallPrimitive.field),
                                 PyText(Unquoted(CallPrimitive.token)))
        ELSE has(CallRecord, CallPrimitive.token) =>
                ret.value = Compare(Chars(CallPrimitive.op), get(CallRecord, CallPrimitive.field),
                                    get(CallRecord, CallPrimitive.token))
C20_Witness ==
    /\ call.fn = "evaluate_condition" /\ ret.returned /\ ret.value = TRUE
    /\ CallPrimitive.field = "age" /\ CallPrimitive.op = ">" /\ CallPrimitive.token = "limit"
    /\ get(CallRecord, "age") = PyInt(30) /\ get(CallRecord, "limit") = PyInt(25)

\* the name of the result field of the aggregation a
AggName(a) == IF a[3] = "" THEN AggDefaultName(a) ELSE a[3]

\* the records i and j of d hold equal values of the fields by, null for a
\* field that is missing
SameGroup(d, by, i, j) == \A k \in DOMAIN by : PyEq(get(d[i], by[k]), get(d[j], by[k]))

\* the first record of d in the group of the record i, and the place of that
\* group among the groups in first-occurrence order
FirstInGroup(d, by, i) == SetMin({m \in 1..i : SameGroup(d, by, m, i)})
GroupIndex(d, by, i) ==
    Cardinality({f \in 1..FirstInGroup(d, by, i) : FirstInGroup(d, by, f) = f})

\* the records ev of eventstats hold, under every result name of aggs, the
\* value the records st of stats hold for the group of the record
SameValuesAsStats(d, aggs, by, ev, st) ==
    /\ Len(ev) = Len(d)
    /\ \A i \in DOMAIN ev : \A k \in DOMAIN aggs :
            /\ GroupIndex(d, by, i) \in DOMAIN st
            /\ has(ev[i], AggName(aggs[k]))
            /\ has(st[GroupIndex(d, by, i)], AggName(aggs[k]))
            /\ get(ev[i], AggName(aggs[k])) = get(st[GroupIndex(d, by, i)], AggName(aggs[k]))

\* C21: eventstats returns whenever stats returns on the same dataset and
\* arguments, and each record it returns holds, for every aggregation of the
\* command, the value stats returns for it in the record of the group the
\* input record belongs to.
C21_EventstatsValuesAreStatsValues ==
    (call.fn = "execute_eventstats" /\ ret.returned) =>
        /\ ret.value.raised = execute_stats(call.args[1], Chars(call.args[2].text)).raised
        /\ ~ret.value.raised =>
                SameValuesAsStats(call.args[1], call.args[2].aggs, call.args[2].by, ret.value.out,
                                  execute_stats(call.args[1], Chars(call.args[2].text)).out)
C21_Witness ==
    /\ call.fn = "execute_eventstats" /\ ret.returned /\ ~ret.value.raised
    /\ call.args[1] = <<R1, R2>> /\ call.args[2].by = <<"city">> /\ Len(call.args[2].aggs) = 2
    /\ get(ret.value.out[2], "n") = PyInt(1)

\* the records of d whose field holds a number, reduced to that field; with
\* texts, also those whose field holds the text of a number, as that number
NumericOnly(d, field, texts) ==
    LET kept == SelectSeq(d, LAMBDA r : IF texts THEN Floatable(get(r, field))
                                       ELSE IsNum(get(r, field)))
    IN [i \in DOMAIN kept |->
            <<<<field, IF IsNum(get(kept[i], field)) THEN get(kept[i], field)
                       ELSE ToFloat(get(kept[i], field))>>>>]

\* C22: sum, avg, min and max of a field return without an error, and what
\* they return is what they return for the records whose field holds a
\* number (the text of a number counted as its number or left out).
C22_NumericAggregationsSkipNonNumeric ==
    (call.fn \in NumericAggregations /\ ret.returned) =>
        /\ ~ret.value.raised
        /\ \E texts \in BOOLEAN :
                PyEq(ret.value.v,
                     Aggregate(call.fn, NumericOnly(call.args[1], call.args[2], texts),
                               <<call.args[2]>>).v)

\* the aggregation specs the list aggs stands for: result name, function and
\* source field of each, in order
SpecsOf(aggs) ==
    [k \in DOMAIN aggs |->
        AggSpec(Chars(AggName(aggs[k])), get_aggregation_function[aggs[k][1]],
                IF aggs[k][2] = "" THEN <<>> ELSE <<aggs[k][2]>>)]

NoAlias(aggs) == \A k \in DOMAIN aggs : aggs[k][3] = ""
\* every aggregation is written func(field) or is the bare word count
StartsAggregation(aggs) == \A k \in DOMAIN aggs : aggs[k][2] # "" \/ aggs[k][1] = "count"

\* C23 as stated: a list of aggregation functions without aliases parses to
\* the same specs written with commas and written with spaces.
C23_CommaAndSpaceFormsAgree ==
    (call.fn = "parse_aggregations" /\ ret.returned /\ NoAlias(call.args[3])) =>
        ret.value = parse_aggregations(Chars(call.args[2]))

\* C23: a list of aggregations, each written func(field) or as the bare word
\* count, parses to its specs (names, functions, fields, order): with commas
\* and no `as` as with spaces, and with `as` under the aliases whether or not
\* commas are present.
C23_FormsAgreeOnStartTokens ==
    (call.fn = "parse_aggregations" /\ ret.returned /\ StartsAggregation(call.args[3])) =>
        /\ ret.value = SpecsOf(call.args[3])
        /\ ret.value = parse_aggregations(Chars(call.args[2]))
C23_Witness ==
    /\ call.fn = "parse_aggregations" /\ ret.returned
    /\ call.args[1] = "count, sum(age), avg(age)"
    /\ call.args[2] = "count sum(age) avg(age)"
    /\ Len(ret.value) = 3 /\ ret.value[2].name = "sum(age)"

\* the command keywords, and the leading word of a segment in lower case
\* ("" when the segment does not start with a word)
Keywords ==
    {"search", "where", "stats", "eventstats", "fields", "table", "rename", "eval", "sort",
     "head", "tail"}
LeadingWord(segment) ==
    ToStr(lower(SubSeq(strip(Chars(segment)), 1, PrefixLen(strip(Chars(segment)), WordChars))))

\* the commands before the command of the first segment: the implicit
\* `search *` when the first segment is a command other than a search
Implicit(segments) ==
    IF LeadingWord(segments[1]) \in Keywords \ {"search", "where"} THEN 1 ELSE 0

\* C24: every segment of the query gives one command, and a segment whose
\* leading word is no command keyword, or that does not start with a word,
\* gives a Search on the whole trimmed segment.
C24_UnknownWordGivesSearch ==
    (call.fn = "parse" /\ ret.returned) =>
        /\ Len(ret.value) = Len(call.args[1]) + Implicit(call.args[1])
        /\ \A k \in DOMAIN call.args[1] :
                LeadingWord(call.args[1][k]) \notin Keywords =>
                    ret.value[k + Implicit(call.args[1])] =
                        [kind |-> "Search", args |-> ToStr(strip(Chars(call.args[1][k])))]
C24_Witness ==
    /\ call.fn = "parse" /\ ret.returned
    /\ call.args[1] = <<"stats count", " foo bar ">>
    /\ ret.value[3] = [kind |-> "Search", args |-> "foo bar"]

\* the bracket depth after the first i characters of q
BracketDepth(q, i) ==
    Cardinality({j \in 1..i : q[j] = "["}) - Cardinality({j \in 1..i : q[j] = "]"})
\* the position of the `]` that brings the depth back to 0 after the `[`
\* at position s (Len(q) + 1 when there is none)
ClosingBracket(q, s) ==
    SetMin({e \in (s + 1)..Len(q) : q[e] = "]" /\ BracketDepth(q, e) = 0} \cup {Len(q) + 1})
\* the positions of the `[` read at depth 0 that are closed, in ascending order
TopLevelOpenings(q) ==
    Ascending({s \in 1..Len(q) : /\ q[s] = "["
                                 /\ BracketDepth(q, s - 1) = 0
                                 /\ ClosingBracket(q, s) <= Len(q)})
SpansOf(q, spans) ==
    /\ Len(spans) = Len(TopLevelOpenings(q))
    /\ \A k \in DOMAIN spans :
            /\ spans[k].start = TopLevelOpenings(q)[k] - 1
            /\ spans[k].end = ClosingBracket(q, TopLevelOpenings(q)[k])
            /\ q[spans[k].start + 1] = "[" /\ q[spans[k].end] = "]"
            /\ spans[k].text = ToStr(SubSeq(q, spans[k].start + 2, spans[k].end - 1))
            /\ k > 1 => spans[k - 1].end <= spans[k].start

\* C25: extract_subsearches returns, from left to right, exactly the spans
\* that open at a `[` read at depth 0 and close at the `]` bringing the
\* depth back to 0; nested brackets give no span; the spans are disjoint
\* and their offsets are those of the two brackets.
C25_ExtractsTopLevelSpans ==
    (call.fn = "extract_subsearches" /\ ret.returned) =>
        /\ ret.value.query = call.args[1]
        /\ SpansOf(Chars(call.args[1]), ret.value.subsearches)
C25_Witness ==
    /\ call.fn = "extract_subsearches" /\ ret.returned
    /\ call.args[1] = "[a [b] c] d [e]"
    /\ ret.value.subsearches =
          <<[text |-> "a [b] c", start |-> 0, end |-> 9], [text |-> "e", start |-> 12, end |-> 15]>>

\* the position the `<field>=` in front of the `[` at position s starts at
\* (s itself when no `=` stands in front of the bracket, blanks ignored):
\* the field is the run of characters other than blank, tab and pipe
PrefixStart(q, s) ==
    LET b == rstrip(SubSeq(q, 1, s - 1))
    IN IF b # <<>> /\ b[Len(b)] = "="
       THEN 1 + SetMin({j \in 0..(Len(b) - 1) :
                            \A m \in (j + 1)..(Len(b) - 1) : b[m] \notin {" ", "\t", "|"}})
       ELSE s
\* the condition the subsearch of the span opening at s stands for on d
ConditionOf(q, d, s) ==
    format_subsearch_results(search(d, SubSeq(q, s + 1, ClosingBracket(q, s) - 1)).out)
\* the query with every span and its prefix replaced by the span's
\* condition, every other character kept
Resolved(q, d) ==
    LET o == TopLevelOpenings(q)
    IN join(<<>>,
            [k \in DOMAIN o |->
                SubSeq(q, IF k = 1 THEN 1 ELSE ClosingBracket(q, o[k - 1]) + 1,
                       PrefixStart(q, o[k]) - 1)
                \o ConditionOf(q, d, o[k])])
       \o SubSeq(q, IF o = <<>> THEN 1 ELSE ClosingBracket(q, o[Len(o)]) + 1, Len(q))
\* a span's prefix starts after the span before it has ended
SpansApart(q) ==
    \A k \in 2..Len(TopLevelOpenings(q)) :
        PrefixStart(q, TopLevelOpenings(q)[k]) > ClosingBracket(q, TopLevelOpenings(q)[k - 1])

\* C26: after process_subsearches every span, with the `<field>=` in front
\* of it, is replaced by the condition of its own subsearch and every other
\* character of the query is unchanged.
C26_SpansReplacedInPlace ==
    (call.fn = "process_subsearches" /\ ret.returned /\ ~ret.value.raised) =>
        ret.value.v = ToStr(Resolved(Chars(call.args[1]), call.args[2]))
\* the same for the queries in which a blank, a tab or a pipe stands
\* between a span and the prefix of the next one
C26_SpansApartReplacedInPlace ==
    (/\ call.fn = "process_subsearches" /\ ret.returned /\ ~ret.value.raised
     /\ SpansApart(Chars(call.args[1]))) =>
        ret.value.v = ToStr(Resolved(Chars(call.args[1]), call.args[2]))

\* the primitive `f=v`, the value in double quotes when it is a string
PrimitiveText(f, v) ==
    Chars(f) \o <<"=">>
    \o (IF v.t = "str" THEN <<"\"">> \o Chars(v.s) \o <<"\"">> ELSE PyStr(v))
\* `(c1 OR c2 OR ...)`
Alternatives(conditions) == <<"(">> \o join(Chars(" OR "), conditions) \o <<")">>
\* every result has the one field f and no other
SingleField(results, f) ==
    /\ results # <<>>
    /\ \A k \in DOMAIN results : Len(results[k]) = 1 /\ results[k][1][1] = f
\* the non-null values of the results, in result order; and the same with
\* only the first occurrence of each value
NonNullValues(results) ==
    SelectSeq([k \in DOMAIN results |-> results[k][1][2]], LAMBDA v : v # None)
DistinctValues(values) ==
    [k \in DOMAIN SelectSeq(Positions(values),
                            LAMBDA i : \A j \in 1..(i - 1) : values[j] # values[i]) |->
        values[SelectSeq(Positions(values),
                         LAMBDA i : \A j \in 1..(i - 1) : values[j] # values[i])[k]]]
CallResults == call.args[1]

\* C27: for results of one field, one distinct non-null value gives
\* `field=value`, several distinct values give `(field=v1 OR field=v2 ...)`
\* over the distinct values.
C27_SingleFieldOverDistinctValues ==
    \A f \in {"user", "age"} :
        (/\ call.fn = "format_subsearch_results" /\ ret.returned
         /\ SingleField(CallResults, f)
         /\ NonNullValues(CallResults) # <<>>) =>
            LET distinct == DistinctValues(NonNullValues(CallResults))
            IN ret.value =
                  ToStr(IF Len(distinct) = 1 THEN PrimitiveText(f, distinct[1])
                        ELSE Alternatives([k \in DOMAIN distinct |-> PrimitiveText(f, distinct[k])]))
\* C27 as the code has it: one primitive per result with a non-null value,
\* in result order, a value that occurs twice written twice.
C27_SingleFieldOverNonNullValues ==
    \A f \in {"user", "age"} :
        (/\ call.fn = "format_subsearch_results" /\ ret.returned
         /\ SingleField(CallResults, f)
         /\ NonNullValues(CallResults) # <<>>) =>
            LET values == NonNullValues(CallResults)
            IN ret.value =
                  ToStr(IF Len(values) = 1 THEN PrimitiveText(f, values[1])
                        ELSE Alternatives([k \in DOMAIN values |-> PrimitiveText(f, values[k])]))
C27_Witness ==
    /\ call.fn = "format_subsearch_results" /\ ret.returned
    /\ CallResults = << <<<<"user", PyText("alice")>>>>, <<<<"user", PyText("alice")>>>> >>
    /\ ret.value = "(user=\"alice\" OR user=\"alice\")"

\* the primitives of the non-null fields of a record, in field order
NonNullPrimitives(record) ==
    [k \in DOMAIN SelectSeq(record, LAMBDA kv : kv[2] # None) |->
        PrimitiveText(SelectSeq(record, LAMBDA kv : kv[2] # None)[k][1],
                      SelectSeq(record, LAMBDA kv : kv[2] # None)[k][2])]
\* the clause of a record: its primitives joined by blanks, in parentheses
\* unless there is only one
Clause(record) ==
    IF Len(NonNullPrimitives(record)) = 1 THEN NonNullPrimitives(record)[1]
    ELSE <<"(">> \o join(<<" ">>, NonNullPrimitives(record)) \o <<")">>
\* the clauses of the records that have a non-null field, in result order
Clauses(results) ==
    [k \in DOMAIN SelectSeq(results, LAMBDA r : NonNullPrimitives(r) # <<>>) |->
        Clause(SelectSeq(results, LAMBDA r : NonNullPrimitives(r) # <<>>)[k])]

NothingReturned(results) == results = <<>> \/ results[1] = <<>>

\* C29: the condition synthesized for a subsearch without results, or whose
\* first result has no field, is false for every record of every dataset:
\* the search that receives it returns no record.
C29_SentinelMatchesNoRecord ==
    (call.fn = "execute_search" /\ ret.returned /\ NothingReturned(call.args[2])) =>
        ret.value = <<>>
\* the same for the datasets that have no field called nonsearchfield
C29_SentinelMatchesNoRecordWithoutField ==
    (/\ call.fn = "execute_search" /\ ret.returned /\ NothingReturned(call.args[2])
     /\ \A k \in DOMAIN call.args[1] : ~has(call.args[1][k], "nonsearchfield")) =>
        ret.value = <<>>

\* the kinds of command that return as many records as they are given
KeepLength == {"Eval", "Fields", "Table", "Rename", "Sort"}
\* execute_eventstats returns as many records as d has, when it returns
EventstatsKeepsLength(d) ==
    \A a \in Aggregations :
        ~execute_eventstats(d, Chars(a.text)).raised =>
            Len(execute_eventstats(d, Chars(a.text)).out) = Len(d)
\* one stage of a running search has returned
StageReturned == pc = "run" /\ pc' = "run" /\ ci' = ci + 1

\* C30: a stage that returns never returns more records than it is given,
\* and eval, fields, table, rename, sort and eventstats return as many; so
\* a search never holds more records than the dataset, and none when the
\* dataset is empty.
C30_StagesNeverAddRecords ==
    /\ [][StageReturned =>
            /\ Len(result') <= Len(result)
            /\ commands[ci].kind \in KeepLength => Len(result') = Len(result)]_vars
    /\ [](pc \in {"run", "done"} =>
            /\ Len(result) <= Len(data)
            /\ data = <<>> => result = <<>>
            /\ EventstatsKeepsLength(result))
C30_Witness ==
    /\ pc = "done"
    /\ query = "stats count by city | sort -count | head 1"
    /\ Len(data) = 2
    /\ Len(result) = 1

=============================================================================
